---- MODULE Spec2Model ----
(***************************************************************************)
(* agent-ctrl: the intercept / score / decide / enforce / record pipeline  *)
(* (ctrl/langchain/client.py), the approval HTTP surface                   *)
(* (ctrl/approvals/api.py), the policy matcher (ctrl/policy/core.py), the *)
(* approval condition checker (ctrl/policy/conditions.py with              *)
(* ctrl/risk/expr.py) and the risk scorer (ctrl/risk/engine.py).           *)
(*                                                                         *)
(* Store model.  Every awaited store helper of the interceptor opens its   *)
(* own connection and commits, so each helper is one atomic step.  In the  *)
(* HTTP handlers the SELECT runs outside any transaction (sqlite3 opens    *)
(* one implicitly only before INSERT/UPDATE), and the UPDATE, the event    *)
(* INSERTs and the commit that follow form one transaction: the read is    *)
(* one step and the commit a later step.  Store writes are assumed to      *)
(* succeed.                                                                *)
(*                                                                         *)
(* Requests.  Every statement of the pipeline and of the surface addresses *)
(* one request row by its id (WHERE id = ?, request_id = ?), and the ids   *)
(* are fresh uuid4 values, so the rows, decisions and events of different  *)
(* requests do not interact.  The model follows the request ids of RIDs    *)
(* through one interceptor run each, with the HTTP calls addressed to      *)
(* them; a call that arrives before the row is inserted finds no row.      *)
(*                                                                         *)
(* Text model.  Names and patterns are tuples of one-character strings.    *)
(* Expressions are tuples of tokens, written without blanks around ".".    *)
(***************************************************************************)
EXTENDS Integers, Sequences, FiniteSets, TLC

\* ---------------------------------------------------------------- bounds
MaxCalls == 2
MaxPolicies == 2

\* ------------------------------------------------------ program constants
\* api.py 280: str(result)[:500]
PreviewLimit == 500

\* ------------------------------------------------------------- constants
\* Python's None where a string is expected, and where a text is expected.
None == "<None>"

NoExpr == <<None>>

\* ------------------------------------------------------------- utilities
Last(s) == s[Len(s)]

Range(s) == {s[i] : i \in 1..Len(s)}

\* --------------------------------------------------------------- fnmatch
\* fnmatch(name, pat): "*" matches any run of characters, "?" exactly one,
\* every other character matches itself; the whole name must be consumed.
RECURSIVE fnmatch(_, _)
fnmatch(name, pat) ==
  IF pat = <<>> THEN name = <<>>
  ELSE IF Head(pat) = "*"
       THEN \E k \in 0..Len(name) : fnmatch(SubSeq(name, k + 1, Len(name)), Tail(pat))
  ELSE IF name = <<>> THEN FALSE
  ELSE IF Head(pat) = "?" THEN fnmatch(Tail(name), Tail(pat))
  ELSE Head(pat) = Head(name) /\ fnmatch(Tail(name), Tail(pat))

\* ---------------------------------------------------------------- policy
\* A policy is [id, match |-> [server, tool, env], effect, reason,
\* require_approval_if]; a policy config is a tuple of policies.
PolicyMatches(p, server, tool, env) ==
  /\ fnmatch(server, p.match.server)
  /\ fnmatch(tool, p.match.tool)
  /\ fnmatch(env, p.match.env)

MatchedString(m) == <<"server=", m.server, " tool=", m.tool, " env=", m.env>>

\* Mutant of NoMatchDecision: an unmatched intent is allowed.
NoMatchDecision_m ==
  [decision |-> "allow", policy_id |-> None, reason |-> <<"No policy matched">>, matched |-> <<"none">>]

NoMatchDecision ==
  [decision |-> "deny", policy_id |-> None, reason |-> <<"No policy matched">>, matched |-> <<"none">>]

\* Mutant of decide_from: the last matching policy wins.
RECURSIVE decide_from_m(_, _, _, _, _)
decide_from_m(policies, i, server, tool, env) ==
  IF i > Len(policies) THEN NoMatchDecision
  ELSE LET later == decide_from_m(policies, i + 1, server, tool, env) IN
    IF later.policy_id # None \/ ~PolicyMatches(policies[i], server, tool, env) THEN later
    ELSE [decision |-> policies[i].effect, policy_id |-> policies[i].id,
          reason |-> <<policies[i].reason>>, matched |-> MatchedString(policies[i].match)]

\* client.decide: the first policy in declared order whose three patterns match.
RECURSIVE decide_from(_, _, _, _, _)
decide_from(policies, i, server, tool, env) ==
  IF i > Len(policies) THEN NoMatchDecision
  ELSE IF PolicyMatches(policies[i], server, tool, env)
       THEN [decision |-> policies[i].effect, policy_id |-> policies[i].id,
             reason |-> <<policies[i].reason>>, matched |-> MatchedString(policies[i].match)]
       ELSE decide_from(policies, i + 1, server, tool, env)

decide(policies, server, tool, env) == decide_from(policies, 1, server, tool, env)

\* The result of a lookup that finds nothing.
NoPolicy ==
  [id |-> None, match |-> [server |-> <<>>, tool |-> <<>>, env |-> <<>>], effect |-> None,
   reason |-> None, require_approval_if |-> NoExpr]

\* client._get_policy_by_id
RECURSIVE get_policy_from(_, _, _)
get_policy_from(policies, i, policy_id) ==
  IF i > Len(policies) THEN NoPolicy
  ELSE IF policies[i].id = policy_id THEN policies[i]
  ELSE get_policy_from(policies, i + 1, policy_id)

_get_policy_by_id(policies, policy_id) ==
  IF policy_id = None \/ policy_id = "" THEN NoPolicy ELSE get_policy_from(policies, 1, policy_id)

\* ------------------------------------------------- expression evaluator
\* Values of the expression language: [t |-> type, v |-> payload].  A raised
\* exception is the value [t |-> "err", v |-> <exception class>].
VInt(n) == [t |-> "int", v |-> n]
VStr(s) == [t |-> "str", v |-> s]
VBool(b) == [t |-> "bool", v |-> b]
VNone == [t |-> "none", v |-> 0]
VDict == [t |-> "dict", v |-> 0]
VFunc(f) == [t |-> "func", v |-> f]
VErr(e) == [t |-> "err", v |-> e]
\* An operation on operand types that this model does not cover.
VUnmodelled == [t |-> "unmodelled", v |-> 0]

Stops(x) == x.t \in {"err", "unmodelled"}

IsNum(x) == x.t \in {"int", "bool"}

Num(x) == IF x.t = "bool" THEN (IF x.v THEN 1 ELSE 0) ELSE x.v

\* bool(x)
Truthy(x) ==
  CASE x.t = "int" -> x.v # 0
    [] x.t = "bool" -> x.v
    [] x.t = "str" -> x.v # ""
    [] x.t = "none" -> FALSE
    [] OTHER -> TRUE

\* Token classes.
NumVal == [n \in {"0", "1", "10", "50", "100"} |->
             CASE n = "0" -> 0 [] n = "1" -> 1 [] n = "10" -> 10 [] n = "50" -> 50 [] OTHER -> 100]

StrVal == [s \in {"''", "'safe'", "'review'", "'danger'", "'os'"} |->
             CASE s = "''" -> "" [] s = "'safe'" -> "safe" [] s = "'review'" -> "review"
               [] s = "'danger'" -> "danger" [] OTHER -> "os"]

\* Rank of the string values in Python's ordering of str.
StrRank == [s \in {"", "danger", "os", "review", "safe"} |->
              CASE s = "" -> 0 [] s = "danger" -> 1 [] s = "os" -> 2 [] s = "review" -> 3 [] OTHER -> 4]

DunderTok == {"__import__", "__class__"}

NameTok == {"risk", "score", "mode", "level", "risk_score", "risk_mode", "x", "len",
            "min", "max", "abs", "round", "floor", "ceil", "sqrt", "log"} \cup DunderTok

CmpTok == {"==", "!=", "<", "<=", ">", ">="}

\* expr._ALLOWED_FUNCS
_ALLOWED_FUNCS == {"min", "max", "abs", "round", "floor", "ceil", "sqrt", "log"}

\* expr._ALLOWED_BINOPS, as tokens ("/" and "**" are outside the token alphabet)
_ALLOWED_BINOPS == {"+", "-", "*", "%"}

\* --- ast.parse(expr, mode="eval") over the token alphabet above
ParseFail == [ok |-> FALSE, node |-> [k |-> "none"], rest |-> <<>>]

ParseOk(n, r) == [ok |-> TRUE, node |-> n, rest |-> r]

StartsWith(t, tok) == t # <<>> /\ Head(t) = tok

\* One recursive-descent parser over the grammar rules; a carries the state
\* of the rule's loop (the nodes parsed so far), <<>> where there is none.
\*   or > and > not > cmp > bitand > sum > term > unary > postfix > atom
RECURSIVE Parse(_, _, _)
Parse(rule, t, a) ==
  CASE rule = "atom" ->
         IF t = <<>> THEN ParseFail
         ELSE LET h == Head(t) IN
           CASE h \in DOMAIN NumVal -> ParseOk([k |-> "const", v |-> VInt(NumVal[h])], Tail(t))
             [] h \in DOMAIN StrVal -> ParseOk([k |-> "const", v |-> VStr(StrVal[h])], Tail(t))
             [] h = "True" -> ParseOk([k |-> "const", v |-> VBool(TRUE)], Tail(t))
             [] h = "False" -> ParseOk([k |-> "const", v |-> VBool(FALSE)], Tail(t))
             [] h = "None" -> ParseOk([k |-> "const", v |-> VNone], Tail(t))
             [] h \in NameTok -> ParseOk([k |-> "name", id |-> h], Tail(t))
             [] h = "(" -> LET r == Parse("or", Tail(t), <<>>) IN
                             IF r.ok /\ StartsWith(r.rest, ")") THEN ParseOk(r.node, Tail(r.rest))
                             ELSE ParseFail
             [] OTHER -> ParseFail
    \* arguments of a call up to the closing parenthesis; a holds the parsed ones
    [] rule = "args" ->
         IF StartsWith(t, ")") /\ a = <<>> THEN ParseOk(a, Tail(t))
         ELSE LET r == Parse("or", t, <<>>) IN
           IF ~r.ok THEN ParseFail
           ELSE IF StartsWith(r.rest, ")") THEN ParseOk(Append(a, r.node), Tail(r.rest))
           ELSE IF StartsWith(r.rest, ",") THEN Parse("args", Tail(r.rest), Append(a, r.node))
           ELSE ParseFail
    \* trailers of the primary a: attribute access, call, subscript
    [] rule = "trailers" ->
         IF StartsWith(t, ".")
         THEN IF Len(t) >= 2 /\ t[2] \in NameTok
              THEN Parse("trailers", SubSeq(t, 3, Len(t)), [k |-> "attr", value |-> a, attr |-> t[2]])
              ELSE ParseFail
         ELSE IF StartsWith(t, "(")
         THEN LET r == Parse("args", Tail(t), <<>>) IN
                IF r.ok THEN Parse("trailers", r.rest, [k |-> "call", func |-> a, args |-> r.node])
                ELSE ParseFail
         ELSE IF StartsWith(t, "[")
         THEN LET r == Parse("or", Tail(t), <<>>) IN
                IF r.ok /\ StartsWith(r.rest, "]")
                THEN Parse("trailers", Tail(r.rest), [k |-> "sub", value |-> a, slice |-> r.node])
                ELSE ParseFail
         ELSE ParseOk(a, t)
    [] rule = "postfix" ->
         LET r == Parse("atom", t, <<>>) IN
           IF r.ok THEN Parse("trailers", r.rest, r.node) ELSE ParseFail
    [] rule = "unary" ->
         IF StartsWith(t, "-") \/ StartsWith(t, "+")
         THEN LET r == Parse("unary", Tail(t), <<>>) IN
                IF r.ok THEN ParseOk([k |-> "unary", op |-> Head(t), operand |-> r.node], r.rest)
                ELSE ParseFail
         ELSE Parse("postfix", t, <<>>)
    \* left-associative chain of the operators a.ops over the rule a.over
    [] rule = "binary" ->
         IF t # <<>> /\ Head(t) \in a.ops
         THEN LET r == Parse(a.over, Tail(t), <<>>) IN
                IF r.ok
                THEN Parse("binary", r.rest,
                           [a EXCEPT !.left = [k |-> "bin", op |-> Head(t), left |-> a.left, right |-> r.node]])
                ELSE ParseFail
         ELSE ParseOk(a.left, t)
    [] rule = "term" ->
         LET r == Parse("unary", t, <<>>) IN
           IF r.ok THEN Parse("binary", r.rest, [ops |-> {"*", "%"}, over |-> "unary", left |-> r.node])
           ELSE ParseFail
    [] rule = "sum" ->
         LET r == Parse("term", t, <<>>) IN
           IF r.ok THEN Parse("binary", r.rest, [ops |-> {"+", "-"}, over |-> "term", left |-> r.node])
           ELSE ParseFail
    [] rule = "bitand" ->
         LET r == Parse("sum", t, <<>>) IN
           IF r.ok THEN Parse("binary", r.rest, [ops |-> {"&"}, over |-> "sum", left |-> r.node])
           ELSE ParseFail
    \* comparison chain a op1 b op2 c: one node with the operators and comparators
    [] rule = "comparators" ->
         IF t # <<>> /\ Head(t) \in CmpTok
         THEN LET r == Parse("bitand", Tail(t), <<>>) IN
                IF r.ok
                THEN Parse("comparators", r.rest,
                           [a EXCEPT !.ops = Append(a.ops, Head(t)), !.comps = Append(a.comps, r.node)])
                ELSE ParseFail
         ELSE IF a.ops = <<>> THEN ParseOk(a.left, t)
         ELSE ParseOk([k |-> "cmp", left |-> a.left, ops |-> a.ops, comps |-> a.comps], t)
    [] rule = "cmp" ->
         LET r == Parse("bitand", t, <<>>) IN
           IF r.ok THEN Parse("comparators", r.rest, [left |-> r.node, ops |-> <<>>, comps |-> <<>>])
           ELSE ParseFail
    [] rule = "not" ->
         IF StartsWith(t, "not")
         THEN LET r == Parse("not", Tail(t), <<>>) IN
                IF r.ok THEN ParseOk([k |-> "unary", op |-> "not", operand |-> r.node], r.rest)
                ELSE ParseFail
         ELSE Parse("cmp", t, <<>>)
    \* chain of a.op ("and" over not, "or" over and): one node with the operands
    [] rule = "operands" ->
         IF StartsWith(t, a.op)
         THEN LET r == Parse(a.over, Tail(t), <<>>) IN
                IF r.ok THEN Parse("operands", r.rest, [a EXCEPT !.values = Append(a.values, r.node)])
                ELSE ParseFail
         ELSE IF Len(a.values) = 1 THEN ParseOk(a.values[1], t)
         ELSE ParseOk([k |-> "bool", op |-> a.op, values |-> a.values], t)
    [] rule = "and" ->
         LET r == Parse("not", t, <<>>) IN
           IF r.ok THEN Parse("operands", r.rest, [op |-> "and", over |-> "not", values |-> <<r.node>>])
           ELSE ParseFail
    [] OTHER ->
         \* "or"
         LET r == Parse("and", t, <<>>) IN
           IF r.ok THEN Parse("operands", r.rest, [op |-> "or", over |-> "and", values |-> <<r.node>>])
           ELSE ParseFail

\* The whole text must be one expression.
ast_parse(toks) ==
  LET r == Parse("or", toks, <<>>) IN IF r.ok /\ r.rest = <<>> THEN r ELSE ParseFail

\* --- expr._validate: every node of the tree must pass
\* Mutant of _validate: only the root node is checked against the dunder rule.
_validate_m(n) == ~(n.k = "name" /\ n.id \in DunderTok)

RECURSIVE _validate(_)
RECURSIVE ValidateAll(_, _)

ValidateAll(nodes, i) ==
  i > Len(nodes) \/ (_validate(nodes[i]) /\ ValidateAll(nodes, i + 1))

_validate(n) ==
  CASE n.k = "const" -> TRUE
    [] n.k = "name" -> n.id \notin DunderTok
    [] n.k = "attr" -> FALSE
    [] n.k = "sub" -> FALSE
    [] n.k = "call" -> /\ n.func.k = "name"
                       /\ n.func.id \in _ALLOWED_FUNCS
                       /\ _validate(n.func)
                       /\ ValidateAll(n.args, 1)
    [] n.k = "bin" -> n.op \in _ALLOWED_BINOPS /\ _validate(n.left) /\ _validate(n.right)
    [] n.k = "unary" -> _validate(n.operand)
    [] n.k = "bool" -> ValidateAll(n.values, 1)
    [] n.k = "cmp" -> _validate(n.left) /\ ValidateAll(n.comps, 1)
    [] OTHER -> FALSE

\* --- eval(compiled, {"__builtins__": {}}, env)
UnaryApply(op, x) ==
  CASE op = "not" -> VBool(~Truthy(x))
    [] IsNum(x) -> VInt(IF op = "-" THEN 0 - Num(x) ELSE Num(x))
    [] OTHER -> VErr("TypeError")

BinApply(op, l, r) ==
  IF IsNum(l) /\ IsNum(r)
  THEN CASE op = "+" -> VInt(Num(l) + Num(r))
         [] op = "-" -> VInt(Num(l) - Num(r))
         [] op = "*" -> VInt(Num(l) * Num(r))
         [] op = "%" -> IF Num(r) = 0 THEN VErr("ZeroDivisionError")
                        ELSE IF Num(r) > 0 THEN VInt(Num(l) % Num(r))
                        ELSE VInt(0 - ((0 - Num(l)) % (0 - Num(r))))
         [] OTHER -> VUnmodelled
  ELSE IF l.t = "str" \/ r.t = "str" THEN
         \* str + str, str * int, str % x have results in Python; the rest raise
         IF (op = "+" /\ l.t = "str" /\ r.t = "str") \/ (op = "*" /\ (IsNum(l) \/ IsNum(r)))
            \/ (op = "%" /\ l.t = "str")
         THEN VUnmodelled ELSE VErr("TypeError")
  ELSE VErr("TypeError")

ValEq(l, r) ==
  IF IsNum(l) /\ IsNum(r) THEN Num(l) = Num(r)
  ELSE IF l.t # r.t THEN FALSE
  ELSE IF l.t \in {"str", "func"} THEN l.v = r.v
  ELSE TRUE

CmpApply(op, l, r) ==
  CASE op = "==" -> VBool(ValEq(l, r))
    [] op = "!=" -> VBool(~ValEq(l, r))
    [] IsNum(l) /\ IsNum(r) ->
         VBool(CASE op = "<" -> Num(l) < Num(r) [] op = "<=" -> Num(l) <= Num(r)
                 [] op = ">" -> Num(l) > Num(r) [] OTHER -> Num(l) >= Num(r))
    [] l.t = "str" /\ r.t = "str" ->
         IF l.v \in DOMAIN StrRank /\ r.v \in DOMAIN StrRank
         THEN VBool(CASE op = "<" -> StrRank[l.v] < StrRank[r.v] [] op = "<=" -> StrRank[l.v] <= StrRank[r.v]
                      [] op = ">" -> StrRank[l.v] > StrRank[r.v] [] OTHER -> StrRank[l.v] >= StrRank[r.v])
         ELSE VUnmodelled
    [] OTHER -> VErr("TypeError")

\* The whitelisted helpers on the argument values.
CallApply(f, args) ==
  CASE f \in {"min", "max"} ->
         IF Len(args) = 0 THEN VErr("TypeError")
         ELSE IF Len(args) = 1 THEN (IF args[1].t = "str" THEN VUnmodelled ELSE VErr("TypeError"))
         ELSE IF Len(args) = 2 /\ IsNum(args[1]) /\ IsNum(args[2])
              THEN (IF (Num(args[1]) >= Num(args[2])) = (f = "max") THEN args[1] ELSE args[2])
         ELSE IF Len(args) = 2 /\ ({args[1].t, args[2].t} \cap {"int", "bool"} # {})
              THEN VErr("TypeError")
         ELSE VUnmodelled
    [] f \in {"abs", "floor", "ceil"} ->
         IF Len(args) = 1 /\ IsNum(args[1])
         THEN VInt(IF f = "abs" /\ Num(args[1]) < 0 THEN 0 - Num(args[1]) ELSE Num(args[1]))
         ELSE VErr("TypeError")
    [] f = "round" ->
         IF Len(args) = 1 /\ IsNum(args[1]) THEN VInt(Num(args[1]))
         ELSE IF Len(args) = 1 THEN VErr("TypeError") ELSE VUnmodelled
    [] OTHER ->
         \* sqrt, log: float results
         IF Len(args) = 1 /\ IsNum(args[1]) /\ (Num(args[1]) < 0 \/ (f = "log" /\ Num(args[1]) = 0))
         THEN VErr("ValueError")
         ELSE IF Len(args) = 1 /\ ~IsNum(args[1]) THEN VErr("TypeError")
         ELSE IF Len(args) = 0 THEN VErr("TypeError")
         ELSE VUnmodelled

RECURSIVE Eval(_, _)
RECURSIVE EvalBoolOp(_, _, _, _)
RECURSIVE EvalChain(_, _, _, _, _)
RECURSIVE EvalArgs(_, _, _, _)

\* and: the first falsy operand, else the last; or: the first truthy, else the last.
EvalBoolOp(op, values, i, env) ==
  LET x == Eval(values[i], env) IN
    IF Stops(x) \/ i = Len(values) THEN x
    ELSE IF Truthy(x) = (op = "or") THEN x
    ELSE EvalBoolOp(op, values, i + 1, env)

\* a op1 b op2 c: stops at the first comparison that is false.
EvalChain(l, ops, comps, i, env) ==
  LET r == Eval(comps[i], env) IN
    IF Stops(r) THEN r
    ELSE LET c == CmpApply(ops[i], l, r) IN
      IF Stops(c) \/ i = Len(ops) \/ ~Truthy(c) THEN c
      ELSE EvalChain(r, ops, comps, i + 1, env)

\* The argument values in order, or the first failure.
EvalArgs(nodes, i, acc, env) ==
  IF i > Len(nodes) THEN [stop |-> FALSE, vals |-> acc, why |-> VNone]
  ELSE LET x == Eval(nodes[i], env) IN
    IF Stops(x) THEN [stop |-> TRUE, vals |-> acc, why |-> x]
    ELSE EvalArgs(nodes, i + 1, Append(acc, x), env)

Eval(n, env) ==
  CASE n.k = "const" -> n.v
    [] n.k = "name" -> IF n.id \in DOMAIN env THEN env[n.id] ELSE VErr("NameError")
    [] n.k = "unary" -> LET x == Eval(n.operand, env) IN IF Stops(x) THEN x ELSE UnaryApply(n.op, x)
    [] n.k = "bin" -> LET l == Eval(n.left, env) IN
                        IF Stops(l) THEN l
                        ELSE LET r == Eval(n.right, env) IN
                          IF Stops(r) THEN r ELSE BinApply(n.op, l, r)
    [] n.k = "bool" -> EvalBoolOp(n.op, n.values, 1, env)
    [] n.k = "cmp" -> LET l == Eval(n.left, env) IN
                        IF Stops(l) THEN l ELSE EvalChain(l, n.ops, n.comps, 1, env)
    [] n.k = "call" -> LET f == Eval(n.func, env) IN
                         IF Stops(f) THEN f
                         ELSE LET a == EvalArgs(n.args, 1, <<>>, env) IN
                           IF a.stop THEN a.why
                           ELSE IF f.t = "func" THEN CallApply(f.v, a.vals)
                           ELSE VErr("TypeError")
    [] OTHER -> VUnmodelled

\* The whitelisted helpers as bindings.
FuncEnv == [f \in _ALLOWED_FUNCS |-> VFunc(f)]

\* expr.safe_eval: parse, validate, then evaluate with vars over the helpers.
safe_eval(expr, vars) ==
  LET p == ast_parse(expr) IN
    IF ~p.ok THEN VErr("SyntaxError")
    ELSE IF ~_validate(p.node) THEN VErr("ValueError")
    ELSE Eval(p.node, vars @@ FuncEnv)

\* ----------------------------------------------------- condition checker
\* str.replace of "risk.score" by "risk_score" and of "risk.mode" by "risk_mode"
\* Mutant of Normalize: only "risk.score" is replaced.
RECURSIVE Normalize_m(_)
Normalize_m(toks) ==
  IF toks = <<>> THEN <<>>
  ELSE IF Len(toks) >= 3 /\ toks[1] = "risk" /\ toks[2] = "." /\ toks[3] = "score"
       THEN <<"risk_score">> \o Normalize_m(SubSeq(toks, 4, Len(toks)))
  ELSE <<Head(toks)>> \o Normalize_m(Tail(toks))

RECURSIVE Normalize(_)
Normalize(toks) ==
  IF toks = <<>> THEN <<>>
  ELSE IF Len(toks) >= 3 /\ toks[1] = "risk" /\ toks[2] = "." /\ toks[3] \in {"score", "mode"}
       THEN <<IF toks[3] = "score" THEN "risk_score" ELSE "risk_mode">>
              \o Normalize(SubSeq(toks, 4, Len(toks)))
  ELSE <<Head(toks)>> \o Normalize(Tail(toks))

\* The bindings a condition sees: risk, risk_score, risk_mode.
ConditionCtx(risk) ==
  [name \in {"risk", "risk_score", "risk_mode"} |->
     CASE name = "risk" -> VDict
       [] name = "risk_score" -> VInt(risk.score)
       [] OTHER -> VStr(risk.mode)]

\* Mutant of _eval_condition: a failing expression counts as false.
_eval_condition_m(expr, risk, default_on_error) ==
  IF expr = NoExpr \/ expr = <<>> THEN FALSE
  ELSE LET r == safe_eval(Normalize(expr), ConditionCtx(risk)) IN
         IF r.t = "err" THEN FALSE ELSE Truthy(r)

\* Mutant of _eval_condition: a missing expression counts as a failing one.
_eval_condition_missing_m(expr, risk, default_on_error) ==
  IF expr = NoExpr \/ expr = <<>> THEN default_on_error
  ELSE LET r == safe_eval(Normalize(expr), ConditionCtx(risk)) IN
         IF r.t = "err" THEN default_on_error ELSE Truthy(r)

_eval_condition(expr, risk, default_on_error) ==
  IF expr = NoExpr \/ expr = <<>> THEN FALSE
  ELSE LET r == safe_eval(Normalize(expr), ConditionCtx(risk)) IN
         IF r.t = "err" THEN default_on_error ELSE Truthy(r)

requires_approval(expr, risk) == _eval_condition(expr, risk, TRUE)

denies_action(expr, risk) == _eval_condition(expr, risk, TRUE)

\* ------------------------------------------------------ canonical JSON
\* Argument values: an integer, or a map kept as Python keeps a dict, the
\* entries [k, v] in insertion order with distinct keys.
JInt(n) == [t |-> "int", v |-> n]
JObj(entries) == [t |-> "obj", v |-> entries]

\* Rank of the keys in the ordering of str.
KeyRank == [k \in {"a", "b", "c"} |-> CASE k = "a" -> 1 [] k = "b" -> 2 [] OTHER -> 3]

ArgInts == {1, 2}

Quoted(k) == "\"" \o k \o "\""

\* Mutant of SortKeys: the entries stay in insertion order.
SortKeys_m(entries) == entries

\* sort_keys=True: the entries in the order of their keys
SortKeys(entries) ==
  [i \in 1..Len(entries) |->
     CHOOSE x \in Range(entries) :
       Cardinality({y \in Range(entries) : KeyRank[y.k] < KeyRank[x.k]}) = i - 1]

\* client._stable_json: json.dumps(obj, separators=(",", ":"), sort_keys=True),
\* as the sequence of the text's tokens.  x.t = "members" stands for the
\* entries still to be written inside an object.
RECURSIVE _stable_json(_)
_stable_json(x) ==
  CASE x.t = "int" -> <<ToString(x.v)>>
    [] x.t = "obj" ->
         IF x.v = <<>> THEN <<"{", "}">>
         ELSE <<"{">> \o _stable_json([t |-> "members", v |-> SortKeys(x.v)]) \o <<"}">>
    [] OTHER ->
         <<Quoted(Head(x.v).k), ":">> \o _stable_json(Head(x.v).v)
           \o (IF Len(x.v) = 1 THEN <<>>
               ELSE <<",">> \o _stable_json([t |-> "members", v |-> Tail(x.v)]))

\* client._sha256: the digest of a text, kept as the application to it
_sha256(text) == <<"sha256">> \o text

\* json.loads over the texts above: [ok, v, rest].  In mode "members", acc
\* holds the entries read so far of the object being read.
LoadFail == [ok |-> FALSE, v |-> JInt(0), rest |-> <<>>]

RECURSIVE Load(_, _, _)
Load(mode, t, acc) ==
  IF t = <<>> THEN LoadFail
  ELSE IF mode = "value" THEN
    IF Head(t) = "{" THEN
      IF StartsWith(Tail(t), "}") THEN [ok |-> TRUE, v |-> JObj(<<>>), rest |-> Tail(Tail(t))]
      ELSE Load("members", Tail(t), <<>>)
    ELSE IF \E n \in ArgInts : ToString(n) = Head(t)
         THEN [ok |-> TRUE, v |-> JInt(CHOOSE n \in ArgInts : ToString(n) = Head(t)), rest |-> Tail(t)]
    ELSE LoadFail
  ELSE
    IF Len(t) >= 3 /\ (\E k \in DOMAIN KeyRank : Quoted(k) = t[1]) /\ t[2] = ":" THEN
      LET key == CHOOSE k \in DOMAIN KeyRank : Quoted(k) = t[1]
          r == Load("value", SubSeq(t, 3, Len(t)), <<>>)
          \* a repeated key keeps its place and takes the later value
          put == IF \E i \in 1..Len(acc) : acc[i].k = key
                 THEN [i \in 1..Len(acc) |-> IF acc[i].k = key THEN [k |-> key, v |-> r.v] ELSE acc[i]]
                 ELSE Append(acc, [k |-> key, v |-> r.v])
      IN IF ~r.ok THEN LoadFail
         ELSE IF StartsWith(r.rest, ",") THEN Load("members", Tail(r.rest), put)
         ELSE IF StartsWith(r.rest, "}") THEN [ok |-> TRUE, v |-> JObj(put), rest |-> Tail(r.rest)]
         ELSE LoadFail
    ELSE LoadFail

\* json.loads(text): the whole text must be one value
json_loads(text) ==
  LET r == Load("value", text, <<>>) IN IF r.ok /\ r.rest = <<>> THEN r ELSE LoadFail

\* Python's == on argument values: maps are equal when they hold the same
\* keys with equal values, whatever the insertion order.
RECURSIVE SameValue(_, _)
SameValue(x, y) ==
  IF x.t # y.t THEN FALSE
  ELSE IF x.t = "int" THEN x.v = y.v
  ELSE /\ {e.k : e \in Range(x.v)} = {e.k : e \in Range(y.v)}
       /\ \A i \in 1..Len(x.v) : \A j \in 1..Len(y.v) :
            x.v[i].k = y.v[j].k => SameValue(x.v[i].v, y.v[j].v)

\* ------------------------------------------------------- checked inputs
\* Condition expressions: well-formed ones, malformed ones, ones using a
\* forbidden construct and ones that raise during evaluation.
CondExprs ==
  <<
     <<"risk", ".", "score", ">=", "50">>,
     <<"risk_score", ">=", "50">>,
     <<"risk", ".", "mode", "==", "'danger'">>,
     <<"risk_mode", "!=", "'safe'">>,
     <<"risk", ".", "score", ">=", "50", "and", "risk", ".", "mode", "==", "'review'">>,
     <<"risk_score", "<", "10", "or", "risk_mode", "==", "'danger'">>,
     <<"not", "risk", ".", "score", "<", "50">>,
     <<"0", "<", "risk_score", "<=", "50">>,
     <<"risk_mode", ">=", "'review'">>,
     <<"max", "(", "risk_score", ",", "10", ")", ">=", "50">>,
     <<"abs", "(", "-", "risk_score", ")", ">", "10">>,
     <<"risk_score", "%", "10", "==", "0">>,
     <<"risk_score", "*", "1", "+", "50", ">", "100">>,
     <<"risk">>,
     <<"0">>,
     <<"''">>,
     <<"True">>,
     <<"None">>,
     <<"(", "risk_score", ">=", "50", ")">>,
     <<"risk_score", ">=", "0", "or", "x">>,
     <<"risk", ".", "score", ">=">>,
     <<">=", "50">>,
     <<"(", "risk_score", ">=", "50">>,
     <<"risk_score", "=", "50">>,
     <<"risk_score", "50">>,
     <<"max", "(", "risk_score", ",", ")", ")">>,
     <<"risk", ".", "level", ">", "1">>,
     <<"risk", "[", "'os'", "]", ">", "1">>,
     <<"__import__", "(", "'os'", ")">>,
     <<"len", "(", "risk_mode", ")", ">", "0">>,
     <<"__class__">>,
     <<"risk_score", "&", "1">>,
     <<"risk_mode", ".", "score", "(", ")">>,
     <<"risk_score", "%", "0", "==", "1">>,
     <<"risk_mode", ">=", "50">>,
     <<"score", ">=", "50">>,
     <<"max", "(", "risk_score", ")", ">", "1">>,
     <<"-", "risk_mode">>,
     <<"risk_score", "+", "risk_mode">>,
     <<"sqrt", "(", "0", "-", "1", ")">>,
     <<"risk_score", "<", "50", "and", "x">>,
     <<"risk", "(", ")">>
  >>

\* Risk results (mode, score) a condition is evaluated against.
RiskResults ==
  {[mode |-> "safe", score |-> 0], [mode |-> "safe", score |-> 10],
   [mode |-> "review", score |-> 50], [mode |-> "review", score |-> 70],
   [mode |-> "danger", score |-> 100], [mode |-> "danger", score |-> 49]}

\* Names: servers, tools and environments of the intents.
Servers == {<<"d", "b">>, <<"f", "s">>}

Tools == {<<"r", "m">>}

Envs == {<<"d">>}

Star == <<"*">>

Policy(id, server, tool, env, effect, rai) ==
  [id |-> id, match |-> [server |-> server, tool |-> tool, env |-> env], effect |-> effect,
   reason |-> "", require_approval_if |-> rai]

\* Policy configs the pipeline runs under: no policy; allow gated by a
\* condition; deny carrying a condition before a catch-all allow; a
\* catch-all pending; allow gated by a malformed condition before a
\* catch-all deny.
PipelineCfgs ==
  {<<>>,
   <<Policy("p1", <<"d", "b">>, Star, Star, "allow", <<"risk", ".", "score", ">=", "50">>)>>,
   <<Policy("p1", <<"d", "*">>, Star, Star, "deny", <<"risk_score", ">=", "50">>),
     Policy("p2", Star, Star, Star, "allow", NoExpr)>>,
   <<Policy("p1", Star, Star, Star, "pending", NoExpr)>>,
   <<Policy("p1", <<"f", "?">>, Star, Star, "allow", <<"risk", ".", "score", ">=">>),
     Policy("p2", Star, Star, Star, "deny", NoExpr)>>}

\* The arguments of the tool call made to each server: a map whose keys are
\* not inserted in sorted order, with a nested map, and the empty map.
IntentArgs ==
  [s \in Servers |->
     IF s = <<"d", "b">>
     THEN JObj(<<[k |-> "b", v |-> JObj(<<[k |-> "c", v |-> JInt(2)], [k |-> "a", v |-> JInt(1)]>>)],
                 [k |-> "a", v |-> JInt(1)]>>)
     ELSE JObj(<<>>)]

\* Risk results the risk engine hands to the pipeline.
PipelineRisks == {[mode |-> "safe", score |-> 10], [mode |-> "review", score |-> 70]}

\* Errors the remote call may raise (subclasses of Exception).
HandlerErrors == {"TimeoutError", "ToolError"}

\* Lengths of str(result) for the results the remote tool returns.
ResultLens == {3, 500, 501}

\* body.approved_by ("human" when the body leaves it out)
Operators == {"human"}

RIDs == {"r1"}

CallIds == 1..MaxCalls

\* ----------------------------------------------------------------- state
VARIABLES
  policy_cfg,    \* the policy config the interceptor was built with
  requests,      \* requests table: request id -> row (NoRow before the insert)
  decisions,     \* decisions table: request id -> rows in insertion order
  events,        \* events table: request id -> rows in insertion order
  statusLog,     \* history: the status values written to each request row, in commit order
  invocations,   \* remote tool adapter: request id -> the calls made for it, in order
  itask,         \* interceptor run of each request: position and locals
  calls,         \* POST /approve and POST /deny handler runs: position and locals
  pure           \* application of a pure function: [fn, arg, out]

vars == <<policy_cfg, requests, decisions, events, statusLog, invocations, itask, calls, pure>>

store == <<requests, decisions, events, statusLog>>

NoRow ==
  [status |-> None, created_at |-> None, server |-> <<>>, tool |-> <<>>, arguments_json |-> <<>>,
   arguments_hash |-> <<>>, actor |-> None, env |-> <<>>, risk_score |-> 0,
   risk_mode |-> None, approved_by |-> None]

NoRisk == [mode |-> None, score |-> 0]

\* The text of an error as its fixed part and the values formatted into it.
NoMessage == [text |-> None]

\* client.py 293, 304: f"ctrl ...: {server}.{tool} — {d.reason}"
PermissionMessage(text, task) ==
  [text |-> text, server |-> task.server, tool |-> task.tool, reason |-> task.d.reason]

\* api.py 229/252, 231/254: the detail of the HTTPException of a status code
CheckDetail(code, row) ==
  IF code = 404 THEN [text |-> "request not found"]
  ELSE [text |-> "request not pending", status |-> row.status]

IdleTask ==
  [pc |-> "idle", server |-> <<>>, tool |-> <<>>, env |-> <<>>, args |-> JObj(<<>>), risk |-> NoRisk,
   d |-> NoMatchDecision, exc |-> None, outcome |-> None, msg |-> NoMessage]

IdleCall ==
  [pc |-> "idle", kind |-> None, rid |-> None, by |-> None, server |-> <<>>, tool |-> <<>>,
   args |-> JObj(<<>>), seen |-> None, result |-> 0, resp |-> 0,
   detail |-> NoMessage]

NoPure == [fn |-> "none", arg |-> <<>>, done |-> FALSE, out |-> <<>>]

PipelineIdle ==
  /\ requests = [r \in RIDs |-> NoRow]
  /\ decisions = [r \in RIDs |-> <<>>]
  /\ events = [r \in RIDs |-> <<>>]
  /\ statusLog = [r \in RIDs |-> <<>>]
  /\ invocations = [r \in RIDs |-> <<>>]
  /\ itask = [r \in RIDs |-> IdleTask]
  /\ calls = [c \in CallIds |-> IdleCall]

Init ==
  /\ policy_cfg \in PipelineCfgs
  /\ PipelineIdle
  /\ pure = NoPure

\* ----------------------------------------------------------- store writes
\* INSERT INTO requests (client.db_insert_request)
db_insert_request(reqs, r, row) == [reqs EXCEPT ![r] = row]

\* Mutant of db_update_request_status: the row is written anew with the status.
db_update_request_status_m(reqs, r, status) ==
  IF reqs[r] = NoRow THEN reqs ELSE [reqs EXCEPT ![r] = [NoRow EXCEPT !.status = status]]

\* UPDATE requests SET status = ? WHERE id = ? (no row with that id: no change)
db_update_request_status(reqs, r, status) ==
  IF reqs[r] = NoRow THEN reqs ELSE [reqs EXCEPT ![r].status = status]

\* Mutant of db_insert_event: the new row takes the place of the newest one.
db_insert_event_m(evs, r, type, data) ==
  [evs EXCEPT ![r] = IF @ = <<>> THEN <<[type |-> type, data |-> data]>>
                     ELSE [@ EXCEPT ![Len(@)] = [type |-> type, data |-> data]]]

\* INSERT INTO events (client.db_insert_event, api._event)
db_insert_event(evs, r, type, data) == [evs EXCEPT ![r] = Append(@, [type |-> type, data |-> data])]

\* Mutant of db_insert_decision: the row is not stored.
db_insert_decision_m(decs, r, d) == decs

\* INSERT INTO decisions (client.db_insert_decision)
db_insert_decision(decs, r, d) ==
  [decs EXCEPT ![r] = Append(@, [decision |-> d.decision, matched_policy_id |-> d.policy_id,
                                  matched_condition |-> d.matched, reason |-> d.reason])]

Logged(log, r, status) == [log EXCEPT ![r] = Append(@, status)]

\* ------------------------------------------------------------ interceptor
\* The decision after the require_approval_if gate (client.py 267-274).
Overridden(policies, d, risk) ==
  LET matched_policy == _get_policy_by_id(policies, d.policy_id) IN
    matched_policy.id # None /\ requires_approval(matched_policy.require_approval_if, risk)

\* Mutant of OverrideDecision: the override loses the matched policy id.
OverrideDecision_m(policies, d) ==
  [decision |-> "pending", policy_id |-> None,
   reason |-> <<"Approval required (", _get_policy_by_id(policies, d.policy_id).require_approval_if, ")">>,
   matched |-> d.matched]

OverrideDecision(policies, d) ==
  [decision |-> "pending", policy_id |-> d.policy_id,
   reason |-> <<"Approval required (", _get_policy_by_id(policies, d.policy_id).require_approval_if, ")">>,
   matched |-> d.matched]

\* Mutant of EnforceBranch: only deny is held back.
EnforceBranch_m(d) == IF d.decision = "deny" THEN "deny" ELSE "allow"

\* The branch of "Enforce" taken for a decision (client.py 284, 295, 306).
EnforceBranch(d) ==
  IF d.decision = "deny" THEN "deny"
  ELSE IF d.decision = "pending" THEN "pending"
  ELSE "allow"

Step(r, from, to) == itask[r].pc = from /\ itask' = [itask EXCEPT ![r].pc = to]

\* Lines 184-229: read the intent, score it, insert the request row.
I_InsertRequest(r) ==
  /\ itask[r].pc = "idle"
  /\ \E server \in Servers, tool \in Tools, env \in Envs, risk \in PipelineRisks :
       /\ itask' = [itask EXCEPT ![r] = [@ EXCEPT !.pc = "inserted", !.server = server,
                                           !.tool = tool, !.env = env, !.args = IntentArgs[server],
                                           !.risk = risk]]
       /\ requests' = db_insert_request(requests, r,
            [status |-> "proposed", created_at |-> "at insert", server |-> server, tool |-> tool,
             arguments_json |-> _stable_json(IntentArgs[server]),
             arguments_hash |-> _sha256(_stable_json(IntentArgs[server])),
             actor |-> None, env |-> env,
             risk_score |-> risk.score, risk_mode |-> risk.mode, approved_by |-> None])
  /\ statusLog' = Logged(statusLog, r, requests'[r].status)
  /\ UNCHANGED <<policy_cfg, decisions, events, invocations, calls, pure>>

\* Lines 231-237.
I_EventCreated(r) ==
  /\ Step(r, "inserted", "created")
  /\ events' = db_insert_event(events, r, "request.created",
                 [server |-> itask[r].server, tool |-> itask[r].tool, env |-> itask[r].env])
  /\ UNCHANGED <<policy_cfg, requests, decisions, statusLog, invocations, calls, pure>>

\* Lines 239-245.
I_EventRiskScored(r) ==
  /\ Step(r, "created", "scored")
  /\ events' = db_insert_event(events, r, "risk.scored", itask[r].risk)
  /\ UNCHANGED <<policy_cfg, requests, decisions, statusLog, invocations, calls, pure>>

\* Lines 247-257: decide, insert the decision row.
I_InsertDecision(r) ==
  /\ itask[r].pc = "scored"
  /\ LET d == decide(policy_cfg, itask[r].server, itask[r].tool, itask[r].env) IN
       /\ itask' = [itask EXCEPT ![r] = [@ EXCEPT !.pc = "decided", !.d = d]]
       /\ decisions' = db_insert_decision(decisions, r, d)
  /\ UNCHANGED <<policy_cfg, requests, events, statusLog, invocations, calls, pure>>

\* Lines 258-274: the decision.made event, then the require_approval_if gate.
I_EventDecisionMade(r) ==
  /\ itask[r].pc = "decided"
  /\ events' = db_insert_event(events, r, "decision.made",
                 [decision |-> itask[r].d.decision, policy_id |-> itask[r].d.policy_id])
  /\ itask' = [itask EXCEPT ![r] =
                 IF Overridden(policy_cfg, itask[r].d, itask[r].risk)
                 THEN [@ EXCEPT !.pc = "override", !.d = OverrideDecision(policy_cfg, itask[r].d)]
                 ELSE [@ EXCEPT !.pc = "enforce"]]
  /\ UNCHANGED <<policy_cfg, requests, decisions, statusLog, invocations, calls, pure>>

\* Lines 275-281.
I_EventOverridden(r) ==
  /\ Step(r, "override", "enforce")
  /\ events' = db_insert_event(events, r, "decision.overridden",
                 [to |-> "pending", because |-> "require_approval_if"])
  /\ UNCHANGED <<policy_cfg, requests, decisions, statusLog, invocations, calls, pure>>

\* Enforce: one status write on the branch of the decision (lines 285, 296, 307).
I_Status(r, branch, status, to) ==
  /\ itask[r].pc = "enforce"
  /\ EnforceBranch(itask[r].d) = branch
  /\ itask' = [itask EXCEPT ![r].pc = to]
  /\ requests' = db_update_request_status(requests, r, status)
  /\ statusLog' = Logged(statusLog, r, requests'[r].status)
  /\ UNCHANGED <<policy_cfg, decisions, events, invocations, calls, pure>>

I_StatusDenied(r) == I_Status(r, "deny", "denied", "denied")

I_StatusPending(r) == I_Status(r, "pending", "pending", "pending")

\* Mutant of I_StatusAllowed: the run goes on to the remote call without
\* the proxy.forwarding event.
I_StatusAllowed_m(r) == I_Status(r, "allow", "allowed", "forwarding")

I_StatusAllowed(r) == I_Status(r, "allow", "allowed", "allowed")

\* Lines 286-293: the request.denied event, then PermissionError to the caller.
I_EventDenied(r) ==
  /\ itask[r].pc = "denied"
  /\ itask' = [itask EXCEPT ![r] = [@ EXCEPT !.pc = "done", !.outcome = "raised:denied",
                                      !.msg = PermissionMessage("ctrl denied tool call", itask[r])]]
  /\ events' = db_insert_event(events, r, "request.denied", [reason |-> itask[r].d.reason])
  /\ UNCHANGED <<policy_cfg, requests, decisions, statusLog, invocations, calls, pure>>

\* Lines 297-304: the request.pending event, then PermissionError to the caller.
I_EventPending(r) ==
  /\ itask[r].pc = "pending"
  /\ itask' = [itask EXCEPT ![r] = [@ EXCEPT !.pc = "done", !.outcome = "raised:pending",
                                      !.msg = PermissionMessage("ctrl requires approval (pending)", itask[r])]]
  /\ events' = db_insert_event(events, r, "request.pending", [reason |-> itask[r].d.reason])
  /\ UNCHANGED <<policy_cfg, requests, decisions, statusLog, invocations, calls, pure>>

\* Lines 308-314.
I_EventForwarding(r) ==
  /\ Step(r, "allowed", "forwarding")
  /\ events' = db_insert_event(events, r, "proxy.forwarding",
                 [server |-> itask[r].server, tool |-> itask[r].tool])
  /\ UNCHANGED <<policy_cfg, requests, decisions, statusLog, invocations, calls, pure>>

\* Line 317: the remote call, which returns a result or raises.
I_Handler(r) ==
  /\ itask[r].pc = "forwarding"
  /\ \/ itask' = [itask EXCEPT ![r].pc = "returned"]
     \/ \E e \in HandlerErrors : itask' = [itask EXCEPT ![r] = [@ EXCEPT !.pc = "excepted", !.exc = e]]
  /\ invocations' = [invocations EXCEPT ![r] =
                       Append(@, [via |-> "interceptor", server |-> itask[r].server, tool |-> itask[r].tool,
                                  args |-> itask[r].args])]
  /\ UNCHANGED <<policy_cfg, requests, decisions, events, statusLog, calls, pure>>

\* Line 318.
I_StatusExecuted(r) ==
  /\ Step(r, "returned", "executed")
  /\ requests' = db_update_request_status(requests, r, "executed")
  /\ statusLog' = Logged(statusLog, r, requests'[r].status)
  /\ UNCHANGED <<policy_cfg, decisions, events, invocations, calls, pure>>

\* Lines 319-326: the proxy.executed event, then the result to the caller.
I_EventExecuted(r) ==
  /\ itask[r].pc = "executed"
  /\ itask' = [itask EXCEPT ![r] = [@ EXCEPT !.pc = "done", !.outcome = "returned"]]
  /\ events' = db_insert_event(events, r, "proxy.executed", [ok |-> TRUE])
  /\ UNCHANGED <<policy_cfg, requests, decisions, statusLog, invocations, calls, pure>>

\* Line 328.
I_StatusFailed(r) ==
  /\ Step(r, "excepted", "failed")
  /\ requests' = db_update_request_status(requests, r, "failed")
  /\ statusLog' = Logged(statusLog, r, requests'[r].status)
  /\ UNCHANGED <<policy_cfg, decisions, events, invocations, calls, pure>>

\* Mutant of I_EventFailed: the error is journaled and then swallowed.
I_EventFailed_m(r) ==
  /\ itask[r].pc = "failed"
  /\ itask' = [itask EXCEPT ![r] = [@ EXCEPT !.pc = "done", !.outcome = "returned"]]
  /\ events' = db_insert_event(events, r, "proxy.failed", [error |-> itask[r].exc])
  /\ UNCHANGED <<policy_cfg, requests, decisions, statusLog, invocations, calls, pure>>

\* Lines 329-336: the proxy.failed event with repr(e), then e re-raised.
I_EventFailed(r) ==
  /\ itask[r].pc = "failed"
  /\ itask' = [itask EXCEPT ![r] = [@ EXCEPT !.pc = "done", !.outcome = "raised:" \o itask[r].exc]]
  /\ events' = db_insert_event(events, r, "proxy.failed", [error |-> itask[r].exc])
  /\ UNCHANGED <<policy_cfg, requests, decisions, statusLog, invocations, calls, pure>>

\* ------------------------------------------------------ approval surface
\* Mutant of CheckRequest: only the terminal statuses are rejected.
CheckRequest_m(row) ==
  IF row.status = None THEN 404
  ELSE IF row.status \in {"denied", "executed", "failed"} THEN 400
  ELSE 0

\* Mutant of CheckRequest: an unknown request id is not rejected.
CheckRequest_unknown_m(row) ==
  IF row # NoRow /\ row.status # "pending" THEN 400 ELSE 0

\* The check both handlers make on the row they read (api.py 228-231, 251-254):
\* the HTTP error to raise, or 0 to go on.
CheckRequest(row) ==
  IF row = NoRow THEN 404
  ELSE IF row.status # "pending" THEN 400
  ELSE 0

\* Mutant of MarkApproved: the UPDATE leaves the status alone.
MarkApproved_m(row, by) == [row EXCEPT !.approved_by = by]

\* The row after approve's UPDATE (api.py 260-263).
MarkApproved(row, by) ==
  IF row = NoRow THEN row ELSE [row EXCEPT !.status = "approved", !.approved_by = by]

\* SELECT and check (api.py 226-231 for deny, 245-257 for approve).
ReadRequest(c, kind, checked) ==
  /\ calls[c].pc = "idle"
  /\ \A q \in CallIds : q < c => calls[q].pc # "idle"
  /\ \E rid \in RIDs, by \in Operators :
       LET row == requests[rid]
           code == CheckRequest(row)
           call == [IdleCall EXCEPT !.kind = kind, !.rid = rid, !.by = by, !.seen = row.status]
       IN calls' = [calls EXCEPT ![c] =
                      IF code # 0 THEN [call EXCEPT !.pc = "done", !.resp = code,
                                                       !.detail = CheckDetail(code, row)]
                      ELSE [call EXCEPT !.pc = checked, !.server = row.server, !.tool = row.tool,
                                        !.args = IF row.arguments_json # <<>>
                                                 THEN json_loads(row.arguments_json).v
                                                 ELSE JObj(<<>>)]]
  /\ UNCHANGED <<policy_cfg, requests, decisions, events, statusLog, invocations, itask, pure>>

Deny_Read(c) == ReadRequest(c, "deny", "d_checked")

\* api.py 233-236: one transaction, then the response.
Deny_Commit(c) ==
  /\ calls[c].pc = "d_checked"
  /\ calls' = [calls EXCEPT ![c] = [@ EXCEPT !.pc = "done", !.resp = 200]]
  /\ requests' = db_update_request_status(requests, calls[c].rid, "denied")
  /\ statusLog' = Logged(statusLog, calls[c].rid, requests'[calls[c].rid].status)
  /\ events' = db_insert_event(events, calls[c].rid, "approval.denied", [by |-> calls[c].by])
  /\ UNCHANGED <<policy_cfg, decisions, invocations, itask, pure>>

Approve_Read(c) == ReadRequest(c, "approve", "a_checked")

\* api.py 259-265: one transaction.
Approve_Commit(c) ==
  /\ calls[c].pc = "a_checked"
  /\ calls' = [calls EXCEPT ![c].pc = "a_committed"]
  /\ requests' = [requests EXCEPT ![calls[c].rid] = MarkApproved(@, calls[c].by)]
  /\ statusLog' = Logged(statusLog, calls[c].rid, requests'[calls[c].rid].status)
  /\ events' = db_insert_event(events, calls[c].rid, "approval.granted", [by |-> calls[c].by])
  /\ UNCHANGED <<policy_cfg, decisions, invocations, itask, pure>>

\* api.py 269: the remote call with the server and tool read at the start;
\* it returns a result (kept by the length of its text) or raises.
Approve_Execute(c) ==
  /\ calls[c].pc = "a_committed"
  /\ \/ \E n \in ResultLens : calls' = [calls EXCEPT ![c] = [@ EXCEPT !.pc = "a_returned", !.result = n]]
     \/ calls' = [calls EXCEPT ![c].pc = "a_excepted"]
  /\ invocations' = [invocations EXCEPT ![calls[c].rid] =
                       Append(@, [via |-> "approve", server |-> calls[c].server, tool |-> calls[c].tool,
                                  args |-> calls[c].args])]
  /\ UNCHANGED <<policy_cfg, requests, decisions, events, statusLog, itask, pure>>

\* Mutant of Approve_Failed: HTTP 500 without recording the failure.
Approve_Failed_m(c) ==
  /\ calls[c].pc = "a_excepted"
  /\ calls' = [calls EXCEPT ![c] = [@ EXCEPT !.pc = "done", !.resp = 500,
                                      !.detail = [text |-> "execution failed", error |-> "error"]]]
  /\ UNCHANGED <<policy_cfg, requests, decisions, events, statusLog, invocations, itask, pure>>

\* api.py 270-275: one transaction, then HTTP 500.
Approve_Failed(c) ==
  /\ calls[c].pc = "a_excepted"
  /\ calls' = [calls EXCEPT ![c] = [@ EXCEPT !.pc = "done", !.resp = 500,
                                      !.detail = [text |-> "execution failed", error |-> "error"]]]
  /\ requests' = db_update_request_status(requests, calls[c].rid, "failed")
  /\ statusLog' = Logged(statusLog, calls[c].rid, requests'[calls[c].rid].status)
  /\ events' = db_insert_event(events, calls[c].rid, "proxy.failed", [error |-> "error"])
  /\ UNCHANGED <<policy_cfg, decisions, invocations, itask, pure>>

\* Mutant of Preview: the result text is stored whole.
Preview_m(n) == n

\* Length of str(result)[:500] for a text of length n (api.py 280).
Preview(n) == IF n > PreviewLimit THEN PreviewLimit ELSE n

\* api.py 277-283: one transaction, then the response.
Approve_Executed(c) ==
  /\ calls[c].pc = "a_returned"
  /\ calls' = [calls EXCEPT ![c] = [@ EXCEPT !.pc = "done", !.resp = 200]]
  /\ requests' = db_update_request_status(requests, calls[c].rid, "executed")
  /\ statusLog' = Logged(statusLog, calls[c].rid, requests'[calls[c].rid].status)
  /\ events' = db_insert_event(
                 db_insert_event(events, calls[c].rid, "proxy.executed", [ok |-> TRUE]),
                 calls[c].rid, "tool.result", [result_preview |-> Preview(calls[c].result)])
  /\ UNCHANGED <<policy_cfg, decisions, invocations, itask, pure>>

\* ---------------------------------------------------------- specification
Interceptor(r) ==
  \/ I_InsertRequest(r)
  \/ I_EventCreated(r)
  \/ I_EventRiskScored(r)
  \/ I_InsertDecision(r)
  \/ I_EventDecisionMade(r)
  \/ I_EventOverridden(r)
  \/ I_StatusDenied(r)
  \/ I_EventDenied(r)
  \/ I_StatusPending(r)
  \/ I_EventPending(r)
  \/ I_StatusAllowed(r)
  \/ I_EventForwarding(r)
  \/ I_Handler(r)
  \/ I_StatusExecuted(r)
  \/ I_EventExecuted(r)
  \/ I_StatusFailed(r)
  \/ I_EventFailed(r)

Surface(c) ==
  \/ Deny_Read(c)
  \/ Deny_Commit(c)
  \/ Approve_Read(c)
  \/ Approve_Commit(c)
  \/ Approve_Execute(c)
  \/ Approve_Failed(c)
  \/ Approve_Executed(c)

Next ==
  \/ \E r \in RIDs : Interceptor(r)
  \/ \E c \in CallIds : Surface(c)

Spec == Init /\ [][Next]_vars

\* Fair scheduling of what has been started: a pipeline that has inserted its
\* row and an HTTP call that has read its request go on to their next await
\* and the remote call answers; nothing obliges a caller to start either.
\* The step after the decision row is enabled exactly at pc "decided", and
\* its weak fairness is written with that condition.
Fairness ==
  /\ \A r \in RIDs :
       /\ WF_vars(I_EventCreated(r)) /\ WF_vars(I_EventRiskScored(r)) /\ WF_vars(I_InsertDecision(r))
       /\ []<>(itask[r].pc # "decided") \/ []<><<I_EventDecisionMade(r)>>_vars
       /\ WF_vars(I_EventOverridden(r))
       /\ WF_vars(I_StatusDenied(r)) /\ WF_vars(I_EventDenied(r))
       /\ WF_vars(I_StatusPending(r)) /\ WF_vars(I_EventPending(r))
       /\ WF_vars(I_StatusAllowed(r)) /\ WF_vars(I_EventForwarding(r)) /\ WF_vars(I_Handler(r))
       /\ WF_vars(I_StatusExecuted(r)) /\ WF_vars(I_EventExecuted(r))
       /\ WF_vars(I_StatusFailed(r)) /\ WF_vars(I_EventFailed(r))
  /\ \A c \in CallIds : WF_vars(calls[c].pc # "idle" /\ Surface(c))

SpecLive == Spec /\ Fairness

\* ------------------------------------------- cancellation (SpecCancel)
\* The positions at which an interceptor run is suspended in an await: every
\* store write from the first event on and the remote call.
InterceptorAwaits ==
  {"inserted", "created", "scored", "decided", "override", "enforce", "denied", "pending",
   "allowed", "forwarding", "returned", "executed", "excepted", "failed"}

\* The caller cancels the run: CancelledError is raised at the await the run
\* is suspended in.  It is a BaseException, so the except Exception clause
\* at client.py 327 does not catch it, and nothing else in __call__ does: the
\* run ends there, the write it was about to make is not made.
I_Cancel(r) ==
  /\ itask[r].pc \in InterceptorAwaits
  /\ itask' = [itask EXCEPT ![r] = [@ EXCEPT !.pc = "cancelled", !.outcome = "raised:CancelledError"]]
  /\ UNCHANGED <<policy_cfg, requests, decisions, events, statusLog, invocations, calls, pure>>

\* The positions at which an approve or deny handler is suspended with its
\* check done: before its transaction, in the remote call, before the
\* transaction that records the outcome.
SurfaceAwaits == {"d_checked", "a_checked", "a_committed", "a_returned", "a_excepted"}

\* The handler task is cancelled: an open transaction is rolled back when
\* the connection closes, the except Exception clause at api.py 270 does not
\* catch CancelledError, and the handler ends without a further write.
Call_Cancel(c) ==
  /\ calls[c].pc \in SurfaceAwaits
  /\ calls' = [calls EXCEPT ![c].pc = "cancelled"]
  /\ UNCHANGED <<policy_cfg, requests, decisions, events, statusLog, invocations, itask, pure>>

NextCancel ==
  \/ Next
  \/ \E r \in RIDs : I_Cancel(r)
  \/ \E c \in CallIds : Call_Cancel(c)

SpecCancel == Init /\ [][NextCancel]_vars

TypeOK ==
  /\ \A r \in RIDs : requests[r].status \in
       {None, "proposed", "allowed", "denied", "pending", "approved", "executed", "failed"}
  /\ \A c \in CallIds : calls[c].resp \in {0, 200, 400, 404, 500}

\* ------------------------------------------- decide on its own (SpecDecide)
PolicyIds == <<"p1", "p2", "p3", "p4">>

Effects == {"allow", "deny", "pending"}

\* What a policy of the matcher's inputs may look like.
PolicyShapes ==
  [server : {Star, <<"d", "b">>, <<"?", "s">>}, tool : {Star, <<"r", "*">>},
   env : {Star, <<"d">>}, effect : Effects]

\* The policy list of the shapes f[1], ..., f[n], ids unique.
DecideCfg(n, f) ==
  [i \in 1..n |-> Policy(PolicyIds[i], f[i].server, f[i].tool, f[i].env, f[i].effect, NoExpr)]

DecideIntents ==
  [server : {<<"d", "b">>, <<"f", "s">>, <<"d", "s">>}, tool : {<<"r", "m">>, <<"l", "s">>},
   env : {<<"d">>, <<"p">>}]

\* Every policy list of up to MaxPolicies policies, every intent.
InitDecide ==
  /\ \E n \in 0..MaxPolicies : \E f \in [1..n -> PolicyShapes] : policy_cfg = DecideCfg(n, f)
  /\ PipelineIdle
  /\ pure \in {[fn |-> "decide", arg |-> i, done |-> FALSE, out |-> NoMatchDecision] : i \in DecideIntents}

ApplyDecide ==
  /\ pure.fn = "decide" /\ ~pure.done
  /\ pure' = [pure EXCEPT !.done = TRUE,
                          !.out = decide(policy_cfg, pure.arg.server, pure.arg.tool, pure.arg.env)]
  /\ UNCHANGED <<policy_cfg, requests, decisions, events, statusLog, invocations, itask, calls>>

SpecDecide == InitDecide /\ [][ApplyDecide]_vars

\* ------------------------------------- the policy tool (SpecTool)
\* Mutant of _subsumes: a wildcard on either side counts.
_subsumes_m(a, b) == a = Star \/ b = Star \/ a = b

\* core._subsumes: "*" is universal, any other pattern covers only itself.
_subsumes(a, b) == a = Star \/ a = b

\* core.lint_policy: no errors in v0; the warnings are the missing catch-all,
\* the pairs (i, j), i before j, where policy i subsumes policy j on all three
\* patterns (0-based indexes, as printed), and the policies with effect pending.
lint_policy(policies) ==
  [errors |-> {},
   no_catch_all |-> ~\E k \in 1..Len(policies) :
                       /\ policies[k].match.server = Star
                       /\ policies[k].match.tool = Star
                       /\ policies[k].match.env = Star,
   shadows |-> {<<w[1] - 1, w[2] - 1>> :
                 w \in {v \in (1..Len(policies)) \X (1..Len(policies)) :
                          /\ v[1] < v[2]
                          /\ _subsumes(policies[v[1]].match.server, policies[v[2]].match.server)
                          /\ _subsumes(policies[v[1]].match.tool, policies[v[2]].match.tool)
                          /\ _subsumes(policies[v[1]].match.env, policies[v[2]].match.env)}},
   pending |-> {policies[k].id : k \in {a \in 1..Len(policies) : policies[a].effect = "pending"}}]

\* The PolicyMatchResult of a search that found nothing.
NoMatchResult ==
  [decision |-> "deny", policy_id |-> None, reason |-> <<"No policy matched">>, matched |-> <<"none">>,
   index |-> -1]

\* core.decide_explain from policy i on: the first policy whose three
\* patterns match, with its 0-based index; reason is p.reason or "".
RECURSIVE decide_explain_from(_, _, _, _, _)
decide_explain_from(policies, i, server, tool, env) ==
  IF i > Len(policies) THEN NoMatchResult
  ELSE IF /\ fnmatch(server, policies[i].match.server)
          /\ fnmatch(tool, policies[i].match.tool)
          /\ fnmatch(env, policies[i].match.env)
       THEN [decision |-> policies[i].effect, policy_id |-> policies[i].id,
             reason |-> <<IF policies[i].reason \in {None, ""} THEN "" ELSE policies[i].reason>>,
             matched |-> <<"server=", policies[i].match.server, " tool=", policies[i].match.tool,
                           " env=", policies[i].match.env>>,
             index |-> i - 1]
       ELSE decide_explain_from(policies, i + 1, server, tool, env)

\* Mutant of decide_explain: the first policy is skipped.
decide_explain_m(policies, server, tool, env) == decide_explain_from(policies, 2, server, tool, env)

decide_explain(policies, server, tool, env) == decide_explain_from(policies, 1, server, tool, env)

\* The policy list of the shapes f[1], ..., f[n] with reasons: a reason text
\* on the denying policies, the default "" on the others.
ToolCfg(n, f) ==
  [i \in 1..n |-> [DecideCfg(n, f)[i] EXCEPT !.reason = IF f[i].effect = "deny" THEN "blocked" ELSE ""]]

NotRun == [run |-> FALSE]

\* One validated policy file, one (server, tool, env): the CLI's lint and
\* explain and the interceptor's decide have not run yet.
InitTool ==
  /\ \E n \in 0..MaxPolicies : \E f \in [1..n -> PolicyShapes] : policy_cfg = ToolCfg(n, f)
  /\ PipelineIdle
  /\ pure \in {[fn |-> "policy", arg |-> i, done |-> FALSE, step |-> "lint",
                lint |-> NotRun, explain |-> NotRun, out |-> NotRun] : i \in DecideIntents}

\* ctrl policy lint
Tool_Lint ==
  /\ pure.fn = "policy" /\ pure.step = "lint"
  /\ pure' = [pure EXCEPT !.step = "explain", !.lint = lint_policy(policy_cfg)]
  /\ UNCHANGED <<policy_cfg, requests, decisions, events, statusLog, invocations, itask, calls>>

\* ctrl policy explain / test
Tool_Explain ==
  /\ pure.fn = "policy" /\ pure.step = "explain"
  /\ pure' = [pure EXCEPT !.step = "decide",
                          !.explain = decide_explain(policy_cfg, pure.arg.server, pure.arg.tool, pure.arg.env)]
  /\ UNCHANGED <<policy_cfg, requests, decisions, events, statusLog, invocations, itask, calls>>

\* the interceptor's decide on the same policy file and intent
Tool_Decide ==
  /\ pure.fn = "policy" /\ pure.step = "decide"
  /\ pure' = [pure EXCEPT !.step = "done", !.done = TRUE,
                          !.out = decide(policy_cfg, pure.arg.server, pure.arg.tool, pure.arg.env)]
  /\ UNCHANGED <<policy_cfg, requests, decisions, events, statusLog, invocations, itask, calls>>

NextTool == Tool_Lint \/ Tool_Explain \/ Tool_Decide

SpecTool == InitTool /\ [][NextTool]_vars

\* ------------------------------------- condition checkers on their own (SpecCond)
CondInputs == [expr : Range(CondExprs) \cup {NoExpr, <<>>}, risk : RiskResults]

InitCond ==
  /\ policy_cfg = <<>>
  /\ PipelineIdle
  /\ pure \in {[fn |-> f, arg |-> a, done |-> FALSE, out |-> FALSE] :
                 f \in {"requires_approval", "denies_action"}, a \in CondInputs}

ApplyRequiresApproval ==
  /\ pure.fn = "requires_approval" /\ ~pure.done
  /\ pure' = [pure EXCEPT !.done = TRUE, !.out = requires_approval(pure.arg.expr, pure.arg.risk)]
  /\ UNCHANGED <<policy_cfg, requests, decisions, events, statusLog, invocations, itask, calls>>

ApplyDeniesAction ==
  /\ pure.fn = "denies_action" /\ ~pure.done
  /\ pure' = [pure EXCEPT !.done = TRUE, !.out = denies_action(pure.arg.expr, pure.arg.risk)]
  /\ UNCHANGED <<policy_cfg, requests, decisions, events, statusLog, invocations, itask, calls>>

NextCond == ApplyRequiresApproval \/ ApplyDeniesAction

SpecCond == InitCond /\ [][NextCond]_vars

\* Every checked condition stays inside the operand types the evaluator covers.
CondModelled ==
  (pure.fn \in {"requires_approval", "denies_action"} /\ pure.arg.expr \notin {NoExpr, <<>>}) =>
    safe_eval(Normalize(pure.arg.expr), ConditionCtx(pure.arg.risk)).t # "unmodelled"

\* ------------------------------------- safe_eval step by step (SpecExpr)
\* The expressions handed to safe_eval: the condition expressions as written
\* and as normalized, and ones whose forbidden part lies where evaluation
\* would not get to.
ExprInputs ==
  Range(CondExprs) \cup {Normalize(e) : e \in Range(CondExprs)} \cup
  {<<"risk_score", ">=", "0", "or", "risk", ".", "level">>,
   <<"risk_score", "<", "0", "and", "__import__", "(", "'os'", ")">>,
   <<"risk_score", ">=", "0", "or", "len", "(", "risk_mode", ")">>,
   <<"risk_score", ">=", "0", "or", "risk", "[", "0", "]">>,
   <<"risk_score", ">=", "0", "or", "risk_score", "&", "1">>,
   <<"max", "(", "1", ",", "__class__", ")">>}

InitExpr ==
  /\ policy_cfg = <<>>
  /\ PipelineIdle
  /\ pure \in {[fn |-> "safe_eval", arg |-> [expr |-> e, risk |-> r], done |-> FALSE,
                stage |-> "start", node |-> ParseFail.node, evaluated |-> FALSE, out |-> VNone] :
                 e \in ExprInputs, r \in RiskResults}

\* node = ast.parse(expr, mode="eval")
SafeEval_Parse ==
  /\ pure.fn = "safe_eval" /\ ~pure.done /\ pure.stage = "start"
  /\ LET p == ast_parse(pure.arg.expr) IN
       pure' = IF p.ok THEN [pure EXCEPT !.stage = "parsed", !.node = p.node]
               ELSE [pure EXCEPT !.done = TRUE, !.out = VErr("SyntaxError")]
  /\ UNCHANGED <<policy_cfg, requests, decisions, events, statusLog, invocations, itask, calls>>

\* _validate(node)
SafeEval_Validate ==
  /\ pure.fn = "safe_eval" /\ ~pure.done /\ pure.stage = "parsed"
  /\ pure' = IF _validate(pure.node) THEN [pure EXCEPT !.stage = "validated"]
             ELSE [pure EXCEPT !.done = TRUE, !.out = VErr("ValueError")]
  /\ UNCHANGED <<policy_cfg, requests, decisions, events, statusLog, invocations, itask, calls>>

\* compile and eval over the helpers updated with vars
SafeEval_Eval ==
  /\ pure.fn = "safe_eval" /\ ~pure.done /\ pure.stage = "validated"
  /\ pure' = [pure EXCEPT !.done = TRUE, !.evaluated = TRUE,
                          !.out = Eval(pure.node, ConditionCtx(pure.arg.risk) @@ FuncEnv)]
  /\ UNCHANGED <<policy_cfg, requests, decisions, events, statusLog, invocations, itask, calls>>

NextExpr == SafeEval_Parse \/ SafeEval_Validate \/ SafeEval_Eval

SpecExpr == InitExpr /\ [][NextExpr]_vars

\* -------------------------- canonical serialization on its own (SpecJson)
JsonKeys == {"a", "b"}

\* Every map of up to two entries with distinct keys over the given values,
\* in every insertion order.
MapsOver(vals) ==
  {<<>>} \cup {<<[k |-> k1, v |-> v1]>> : k1 \in JsonKeys, v1 \in vals}
    \cup {<<[k |-> e[1], v |-> e[3]], [k |-> e[2], v |-> e[4]]>> :
            e \in {x \in JsonKeys \X JsonKeys \X vals \X vals : x[1] # x[2]}}

\* Nested maps: two entries, the first inserted one holding 1.
InnerMaps == {m \in MapsOver({JInt(1), JInt(2)}) : Len(m) = 2 /\ m[1].v = JInt(1)}

\* Argument maps: integers and nested maps as values.
ArgMaps == {JObj(m) : m \in MapsOver({JInt(1)} \cup {JObj(i) : i \in InnerMaps})}

InitJson ==
  /\ policy_cfg = <<>>
  /\ PipelineIdle
  /\ pure \in {[fn |-> "_stable_json", arg |-> [x |-> x, y |-> y], done |-> FALSE,
                out |-> [x |-> <<>>, y |-> <<>>, hx |-> <<>>, hy |-> <<>>]] :
                 x \in ArgMaps, y \in ArgMaps}

\* args_json = _stable_json(args); args_hash = _sha256(args_json), for both maps
ApplyStableJson ==
  /\ pure.fn = "_stable_json" /\ ~pure.done
  /\ pure' = [pure EXCEPT !.done = TRUE,
                          !.out = [x |-> _stable_json(pure.arg.x), y |-> _stable_json(pure.arg.y),
                                   hx |-> _sha256(_stable_json(pure.arg.x)),
                                   hy |-> _sha256(_stable_json(pure.arg.y))]]
  /\ UNCHANGED <<policy_cfg, requests, decisions, events, statusLog, invocations, itask, calls>>

SpecJson == InitJson /\ [][ApplyStableJson]_vars

\* --------------------------------------- GET /requests on its own (SpecList)
\* The bound of the limit of GET /requests, and the limit when none is given.
MaxListLimit == 500

DefaultLimit == 200

\* Mutant of safe_limit: the limit is clamped from above only.
safe_limit_m(limit) == IF limit < MaxListLimit THEN limit ELSE MaxListLimit

\* safe_limit = max(1, min(limit, 500))
safe_limit(limit) ==
  LET low == IF limit < MaxListLimit THEN limit ELSE MaxListLimit
  IN IF low > 1 THEN low ELSE 1

\* status.strip().lower() of the status texts a caller sends
strip_lower(status) ==
  CASE status = " Pending " -> "pending"
    [] status = "EXECUTED" -> "executed"
    [] status = "  " -> ""
    [] OTHER -> status

\* SELECT ... FROM requests [WHERE status = ?] ORDER BY created_at DESC LIMIT ?
\* over a table kept in insertion order; a negative LIMIT is no limit.
FetchRequests(table, status_filter, limit) ==
  LET keep(row) == status_filter \in {None, ""} \/ row.status = status_filter
      sel == SelectSeq(table, keep)
      n == IF limit < 0 \/ limit > Len(sel) THEN Len(sel) ELSE limit
  IN [k \in 1..n |-> sel[Len(sel) + 1 - k]]

\* Tables of requests: sizes around the limits, statuses mixed or all pending.
ListTables ==
  {[k \in 1..n |-> [id |-> k, created_at |-> k,
                    status |-> IF mixed /\ k % 2 = 1 THEN "executed" ELSE "pending"]] :
     n \in {0, 1, 2, 3, 201, 501, 502}, mixed \in BOOLEAN}

\* The limit query parameter: any integer, 200 when left out.
ListLimits == {-5, 0, 1, 2, DefaultLimit, 499, MaxListLimit, 501, 1000000}

InitList ==
  /\ policy_cfg = <<>>
  /\ PipelineIdle
  /\ pure \in {[fn |-> "requests", arg |-> [table |-> t, status |-> st, limit |-> l],
                done |-> FALSE, out |-> <<>>] :
                 t \in ListTables, st \in {None, "", "  ", "pending", " Pending ", "EXECUTED", "denied"},
                 l \in ListLimits}

\* GET /requests
ListRequests ==
  /\ pure.fn = "requests" /\ ~pure.done
  /\ LET status_filter == IF pure.arg.status = None THEN None ELSE strip_lower(pure.arg.status)
     IN pure' = [pure EXCEPT !.done = TRUE,
                             !.out = FetchRequests(pure.arg.table, status_filter, safe_limit(pure.arg.limit))]
  /\ UNCHANGED <<policy_cfg, requests, decisions, events, statusLog, invocations, itask, calls>>

SpecList == InitList /\ [][ListRequests]_vars

\* --------------------------------------- RiskEngine.score (SpecRisk)
\* engine._mode_rank: the rank on the ladder, 0 for a mode outside it
_mode_rank(mode) ==
  CASE mode = "safe" -> 0 [] mode = "review" -> 1 [] mode = "danger" -> 2 [] OTHER -> 0

\* engine._escalate_one: one step up the ladder, saturating; a mode outside
\* the ladder is returned as it is
_escalate_one(mode) ==
  CASE mode = "safe" -> "review" [] mode = "review" -> "danger" [] OTHER -> mode

\* engine._when_matches for a when clause without an args predicate
_when_matches(when, intent) ==
  /\ fnmatch(intent.server, when.server)
  /\ fnmatch(intent.tool, when.tool)
  /\ fnmatch(intent.env, when.env)

\* self.cfg.modes.get(mode, self.cfg.modes["safe"]).score
Baseline(modes, mode) == IF mode \in DOMAIN modes THEN modes[mode] ELSE modes["safe"]

\* int(max(0, min(100, v)))
Clamp(v) == IF v < 0 THEN 0 ELSE IF v > 100 THEN 100 ELSE v

\* vars_ctx: args and every scalar argument hoisted to the top level.  The
\* bindings server, tool and env are left out: the token alphabet has no
\* such names, so no checked expression reads them.
RiskVarsCtx(intent) == intent.args @@ [n \in {"args"} |-> VDict]

\* Mutant of ComputeVars: a failing var ends the computation of the vars.
RECURSIVE ComputeVars_m(_, _, _, _)
ComputeVars_m(vs, i, ctx, computed) ==
  IF i > Len(vs) THEN computed
  ELSE LET v == safe_eval(vs[i].expr, computed @@ ctx)
       IN IF v.t = "err" THEN computed
          ELSE ComputeVars_m(vs, i + 1, ctx, (vs[i].name :> v) @@ computed)

\* The computed vars, in declaration order; a failing one is bound to 0.
RECURSIVE ComputeVars(_, _, _, _)
ComputeVars(vs, i, ctx, computed) ==
  IF i > Len(vs) THEN computed
  ELSE LET v == safe_eval(vs[i].expr, computed @@ ctx)
       IN ComputeVars(vs, i + 1, ctx, (vs[i].name :> (IF v.t = "err" THEN VInt(0) ELSE v)) @@ computed)

NoVars == [n \in {} |-> VNone]

\* {**vars_ctx, **computed, "score": score, "mode": mode}
RiskEnv(computed, intent, st) ==
  [n \in {"score", "mode"} |-> IF n = "score" THEN VInt(st.score) ELSE VStr(st.mode)]
    @@ computed @@ RiskVarsCtx(intent)

\* Mutant of BumpToReview: the mode becomes review.
BumpToReview_m(mode) == "review"

\* max(mode, "review", key=_mode_rank): the first of the two with the top rank
BumpToReview(mode) == IF _mode_rank("review") > _mode_rank(mode) THEN "review" ELSE mode

\* f"Expr failed in rule '{rule.name}' -> escalated"
ExprFailedReason(rule) == "Expr failed in rule '" \o rule.name \o "' -> escalated"

\* The score_expr step of a matching rule.
ApplyScoreExpr(computed, intent, rule, st) ==
  IF rule.score_expr = NoExpr \/ rule.score_expr = <<>> THEN st
  ELSE LET v == safe_eval(rule.score_expr, RiskEnv(computed, intent, st)) IN
    IF v.t = "err"
    THEN [st EXCEPT !.mode = BumpToReview(st.mode), !.reasons = Append(@, ExprFailedReason(rule))]
    ELSE IF IsNum(v) THEN [st EXCEPT !.score = Clamp(Num(v))]
    ELSE st

\* if rule.set_mode: mode = rule.set_mode
ApplySetMode(rule, st) ==
  IF rule.set_mode = None THEN st ELSE [st EXCEPT !.mode = rule.set_mode]

\* if rule.escalate == "one_level": mode = _escalate_one(mode)
ApplyEscalate(rule, st) ==
  IF rule.escalate = "one_level" THEN [st EXCEPT !.mode = _escalate_one(st.mode)] ELSE st

\* score = max(score, modes.get(mode, modes["safe"]).score)
Realign(cfg, st) ==
  IF Baseline(cfg.modes, st.mode) > st.score
  THEN [st EXCEPT !.score = Baseline(cfg.modes, st.mode)] ELSE st

\* Lines 136-149 for a matching rule: its name and reason are noted, its
\* score_expr is applied.
ApplyRuleExpr(computed, intent, rule, st) ==
  ApplyScoreExpr(computed, intent, rule,
    [st EXCEPT !.matched_rules = Append(@, rule.name),
               !.reasons = IF rule.reason # "" THEN Append(@, rule.reason) ELSE @])

\* Lines 152-161 for a matching rule: set_mode, escalate, realignment.
ApplyRuleMode(cfg, rule, st) == Realign(cfg, ApplyEscalate(rule, ApplySetMode(rule, st)))

\* The loop over set_mode_by_score: the first truthy expression sets the
\* mode and ends the loop; a failing one bumps the mode to review.  tried
\* lists the entries whose expression was evaluated.
RECURSIVE ModeByScore(_, _, _, _, _)
ModeByScore(cfg, computed, intent, i, st) ==
  IF i > Len(cfg.set_mode_by_score) THEN st
  ELSE LET ok == safe_eval(cfg.set_mode_by_score[i].expr, RiskEnv(computed, intent, st))
           s == [st EXCEPT !.tried = Append(@, i)]
       IN
    IF ok.t = "err"
    THEN ModeByScore(cfg, computed, intent, i + 1,
           [s EXCEPT !.mode = BumpToReview(st.mode),
                     !.reasons = Append(@, "set_mode_by_score expression failed -> review")])
    ELSE IF Truthy(ok) THEN [s EXCEPT !.mode = cfg.set_mode_by_score[i].mode]
    ELSE ModeByScore(cfg, computed, intent, i + 1, s)

\* After the rules: the mapping by score with its realignment, the final clamp.
Finish(cfg, computed, intent, st) ==
  LET s == IF cfg.set_mode_by_score = <<>> THEN st
           ELSE Realign(cfg, ModeByScore(cfg, computed, intent, 1, st))
  IN [s EXCEPT !.score = Clamp(s.score)]

\* mode = "safe"; score = modes[mode].score; no reasons, no matched rules
ScoreStart(cfg) ==
  [mode |-> "safe", score |-> cfg.modes["safe"], reasons |-> <<>>, matched_rules |-> <<>>,
   tried |-> <<>>]

\* --- checked risk configs and intents
MaxRules == 2

RiskRule(server, set_mode, escalate, score_expr) ==
  [name |-> "rule", when |-> [server |-> server, tool |-> Star, env |-> Star], reason |-> "",
   set_mode |-> set_mode, escalate |-> escalate, score_expr |-> score_expr]

RuleShapes ==
  {RiskRule(Star, "danger", None, NoExpr),
   RiskRule(Star, "safe", None, NoExpr),
   RiskRule(Star, None, "one_level", NoExpr),
   [RiskRule(<<"d", "*">>, "review", None, <<"score", "+", "50">>) EXCEPT !.reason = "database"],
   RiskRule(<<"f", "s">>, "danger", "one_level", <<"0", "-", "10">>),
   RiskRule(Star, None, None, <<"score", "%", "0">>),
   RiskRule(Star, None, None, <<"100", "*", "10">>),
   RiskRule(Star, None, None, <<"mode">>),
   RiskRule(Star, None, None, <<"level", "+", "x">>)}

\* The baselines of safe, review and danger.
ModeScores ==
  {[m \in {"safe", "review", "danger"} |->
      CASE m = "safe" -> s [] m = "review" -> 50 [] OTHER -> d] : s \in {0, 10}, d \in {90, 150}}

\* The vars of a config: none; one that reads an argument; one that tries to
\* import, followed by one that reads it.
RiskVarsChoices ==
  {<<>>,
   <<[name |-> "level", expr |-> <<"x", "*", "1">>]>>,
   <<[name |-> "level", expr |-> <<"__import__", "(", "'os'", ")">>],
     [name |-> "x", expr |-> <<"level", "+", "10">>]>>}

ModeByScoreChoices ==
  {<<>>,
   <<[mode |-> "danger", expr |-> <<"score", ">=", "100">>],
     [mode |-> "review", expr |-> <<"score", ">=", "50">>]>>,
   <<[mode |-> "safe", expr |-> <<"score", ">=", "0">>]>>,
   <<[mode |-> "danger", expr |-> <<"score", "%", "0">>],
     [mode |-> "safe", expr |-> <<"score", "<", "50">>]>>}

RiskIntents ==
  {[server |-> <<"d", "b">>, tool |-> <<"r", "m">>, env |-> <<"d">>, args |-> [n \in {"x"} |-> VInt(50)]],
   [server |-> <<"f", "s">>, tool |-> <<"r", "m">>, env |-> <<"d">>, args |-> [n \in {} |-> VNone]]}

\* Every config of up to MaxRules rules, every intent; score has not started.
InitRisk ==
  /\ policy_cfg = <<>>
  /\ PipelineIdle
  /\ \E n \in 0..MaxRules : \E rules \in [1..n -> RuleShapes] :
       \E modes \in ModeScores : \E vs \in RiskVarsChoices :
         \E mbs \in ModeByScoreChoices : \E intent \in RiskIntents :
           LET cfg == [modes |-> modes, vars |-> vs, rules |-> rules, set_mode_by_score |-> mbs]
           IN pure = [fn |-> "score", arg |-> [cfg |-> cfg, intent |-> intent], done |-> FALSE,
                      i |-> 0, phase |-> "vars", computed |-> NoVars, after |-> <<>>,
                      out |-> ScoreStart(cfg)]

\* Lines 102-128: the bindings, then the vars in declaration order.
Score_Vars ==
  /\ pure.fn = "score" /\ ~pure.done /\ pure.phase = "vars"
  /\ pure' = [pure EXCEPT !.i = 1, !.phase = "expr",
                          !.computed = ComputeVars(pure.arg.cfg.vars, 1,
                                                   RiskVarsCtx(pure.arg.intent), NoVars)]
  /\ UNCHANGED <<policy_cfg, requests, decisions, events, statusLog, invocations, itask, calls>>

\* Lines 131-149 of one turn of "for rule in self.cfg.rules": a rule that
\* does not match is passed over; after[j] is the mode after rule j.
Score_RuleExpr ==
  /\ pure.fn = "score" /\ ~pure.done /\ pure.phase = "expr" /\ pure.i <= Len(pure.arg.cfg.rules)
  /\ LET rule == pure.arg.cfg.rules[pure.i] IN
       pure' = IF _when_matches(rule.when, pure.arg.intent)
               THEN [pure EXCEPT !.phase = "mode",
                                 !.out = ApplyRuleExpr(pure.computed, pure.arg.intent, rule, @)]
               ELSE [pure EXCEPT !.i = @ + 1, !.after = Append(@, pure.out.mode)]
  /\ UNCHANGED <<policy_cfg, requests, decisions, events, statusLog, invocations, itask, calls>>

\* Lines 152-161 of the turn.
Score_RuleMode ==
  /\ pure.fn = "score" /\ ~pure.done /\ pure.phase = "mode"
  /\ LET st == ApplyRuleMode(pure.arg.cfg, pure.arg.cfg.rules[pure.i], pure.out)
     IN pure' = [pure EXCEPT !.i = @ + 1, !.phase = "expr", !.after = Append(@, st.mode), !.out = st]
  /\ UNCHANGED <<policy_cfg, requests, decisions, events, statusLog, invocations, itask, calls>>

\* The rules are done: map by score, clamp, return.
Score_Return ==
  /\ pure.fn = "score" /\ ~pure.done /\ pure.phase = "expr" /\ pure.i > Len(pure.arg.cfg.rules)
  /\ pure' = [pure EXCEPT !.done = TRUE,
                          !.out = Finish(pure.arg.cfg, pure.computed, pure.arg.intent, pure.out)]
  /\ UNCHANGED <<policy_cfg, requests, decisions, events, statusLog, invocations, itask, calls>>

NextRisk == Score_Vars \/ Score_RuleExpr \/ Score_RuleMode \/ Score_Return

SpecRisk == InitRisk /\ [][NextRisk]_vars

\* Every checked risk expression stays inside the operand types the evaluator covers.
RiskModelled ==
  (pure.fn = "score" /\ pure.phase # "vars") =>
    /\ \A j \in 1..Len(pure.arg.cfg.rules) :
         pure.arg.cfg.rules[j].score_expr # NoExpr =>
           safe_eval(pure.arg.cfg.rules[j].score_expr,
                     RiskEnv(pure.computed, pure.arg.intent, pure.out)).t # "unmodelled"
    /\ \A j \in 1..Len(pure.arg.cfg.set_mode_by_score) :
         safe_eval(pure.arg.cfg.set_mode_by_score[j].expr,
                   RiskEnv(pure.computed, pure.arg.intent, pure.out)).t # "unmodelled"
    /\ \A n \in DOMAIN pure.computed : pure.computed[n].t # "unmodelled"

\* ------------------------------------------------------------ properties
Terminal == {"denied", "executed", "failed"}

\* The edges of the request status machine.
Edges ==
  {<<"proposed", "allowed">>, <<"proposed", "denied">>, <<"proposed", "pending">>,
   <<"allowed", "executed">>, <<"allowed", "failed">>,
   <<"pending", "approved">>, <<"pending", "denied">>,
   <<"approved", "executed">>, <<"approved", "failed">>}

EventTypes(r) == {events[r][i].type : i \in 1..Len(events[r])}

InvokedVia(r, via) == \E i \in 1..Len(invocations[r]) : invocations[r][i].via = via

\* The interceptor of r has passed the require_approval_if gate: itask[r].d
\* is the effective decision.
Effective(r) == itask[r].pc \notin {"idle", "inserted", "created", "scored", "decided"}

\* C1: once the stored status of a request is denied, executed or failed,
\* no step of the interceptor or of approve/deny changes it.
C1_TerminalNeverChanges ==
  [][\A r \in RIDs : requests[r].status \in Terminal => requests'[r].status = requests[r].status]_vars

\* C2: every change of the stored status of an existing request row follows
\* one of the nine edges of the status machine.
C2_OnlyGraphEdges ==
  [][\A r \in RIDs :
       (requests[r] # NoRow /\ requests'[r].status # requests[r].status)
         => <<requests[r].status, requests'[r].status>> \in Edges]_vars

\* C3: when a POST /deny has answered ok for a request, the remote tool
\* adapter has not been and is never invoked for that request.
C3_DeniedNeverInvoked ==
  \A c \in CallIds :
    (calls[c].kind = "deny" /\ calls[c].resp = 200) => invocations[calls[c].rid] = <<>>

\* C4: an approve or deny that reads an unknown request id answers 404, one
\* that reads a status other than pending answers 400; the step that rejects
\* ends the handler and leaves rows, decisions, events and the remote tool
\* adapter untouched, and the handler takes no step afterwards.
C4_RejectedCallChangesNothing ==
  /\ [][\A c \in CallIds :
          (calls[c].pc = "idle" /\ calls'[c].pc # "idle") =>
            LET row == requests[calls'[c].rid] IN
              (row = NoRow \/ row.status # "pending") =>
                /\ calls'[c].resp = IF row = NoRow THEN 404 ELSE 400
                /\ calls'[c].pc = "done"
                /\ UNCHANGED <<requests, decisions, events, invocations>>]_vars
  /\ [][\A c \in CallIds : calls[c].resp \in {400, 404} => calls'[c] = calls[c]]_vars

\* C4 witness: a second approve of an already approved request was rejected.
C4_Witness ==
  \E c \in CallIds : calls[c].kind = "approve" /\ calls[c].resp = 400 /\ calls[c].seen = "approved"

\* C5: the interceptor calls the handler only under an effective decision
\* allow; under deny (pending) it writes status denied (pending) right after
\* proposed, then the request.denied (request.pending) event, and raises.
C5_HandlerOnlyOnAllow ==
  \A r \in RIDs :
    /\ InvokedVia(r, "interceptor") => (Effective(r) /\ itask[r].d.decision = "allow")
    /\ (Effective(r) /\ itask[r].d.decision \in {"deny", "pending"} /\ itask[r].pc = "done") =>
         LET st == IF itask[r].d.decision = "deny" THEN "denied" ELSE "pending" IN
           /\ Len(statusLog[r]) >= 2 /\ statusLog[r][1] = "proposed" /\ statusLog[r][2] = st
           /\ ("request." \o st) \in EventTypes(r)
           /\ itask[r].outcome = "raised:" \o st
           /\ ~InvokedVia(r, "interceptor")

\* C5 witness: a request overridden to pending was parked and the caller got the error.
C5_Witness ==
  \E r \in RIDs :
    /\ itask[r].pc = "done" /\ itask[r].d.decision = "pending"
    /\ "decision.overridden" \in EventTypes(r)
    /\ itask[r].outcome = "raised:pending"

\* C6: in every step that invokes the remote tool for a request, the store
\* shows the request as allowed (interceptor) or approved (approve).
C6_InvokedWhileAllowedOrApproved ==
  [][\A r \in RIDs :
       Len(invocations'[r]) > Len(invocations[r]) =>
         requests[r].status =
           IF Last(invocations'[r]).via = "interceptor" THEN "allowed" ELSE "approved"]_vars

\* C7: every executed or failed written to a request row comes after an
\* allowed or approved written to the same row.
C7_ExecutedOnlyAfterAllowedOrApproved ==
  \A r \in RIDs : \A i \in 1..Len(statusLog[r]) :
    statusLog[r][i] \in {"executed", "failed"} =>
      \E j \in 1..(i - 1) : statusLog[r][j] \in {"allowed", "approved"}

\* C7 witness: a request was executed through the approve path.
C7_Witness ==
  \E r \in RIDs :
    /\ statusLog[r] # <<>> /\ Last(statusLog[r]) = "executed"
    /\ "approved" \in Range(statusLog[r])

\* No policy of the config matches the intent of r.
NoPolicyMatches(r) ==
  \A i \in 1..Len(policy_cfg) :
    ~PolicyMatches(policy_cfg[i], itask[r].server, itask[r].tool, itask[r].env)

\* C8: when no policy matches the intent, decide gives deny with policy_id
\* None, reason "No policy matched" and matched "none"; the request goes from
\* proposed to denied and nowhere else, and the remote tool is not invoked.
C8_DefaultDeny ==
  \A r \in RIDs :
    (itask[r].pc \notin {"idle", "inserted", "created", "scored"} /\ NoPolicyMatches(r)) =>
      /\ itask[r].d.decision = "deny" /\ itask[r].d.policy_id = None
      /\ itask[r].d.reason = <<"No policy matched">> /\ itask[r].d.matched = <<"none">>
      /\ decisions[r][1].decision = "deny" /\ decisions[r][1].matched_policy_id = None
      /\ statusLog[r] \in {<<"proposed">>, <<"proposed", "denied">>}
      /\ (itask[r].pc = "done" => requests[r].status = "denied")
      /\ invocations[r] = <<>>

\* C8 witness: under the empty policy list a request ended denied.
C8_Witness ==
  \E r \in RIDs : policy_cfg = <<>> /\ itask[r].pc = "done" /\ requests[r].status = "denied"

\* The indices of the policies whose three patterns match the intent.
Matching(policies, intent) ==
  {i \in 1..Len(policies) : PolicyMatches(policies[i], intent.server, intent.tool, intent.env)}

\* C9: decide returns the effect and the id of the lowest-index policy whose
\* three patterns match, whichever later policies match as well.
C9_FirstMatchWins ==
  (pure.fn = "decide" /\ pure.done) =>
    LET M == Matching(policy_cfg, pure.arg) IN
      M # {} =>
        LET first == CHOOSE i \in M : \A j \in M : i <= j IN
          /\ pure.out.decision = policy_cfg[first].effect
          /\ pure.out.policy_id = policy_cfg[first].id

\* C9 witness: two policies of different effect match and decide was applied.
C9_Witness ==
  /\ pure.fn = "decide" /\ pure.done
  /\ \E i, j \in Matching(policy_cfg, pure.arg) : i < j /\ policy_cfg[i].effect # policy_cfg[j].effect

\* The expression is present and parsing, validating or evaluating it fails.
Malformed(expr) == ~ast_parse(Normalize(expr)).ok

Forbidden(expr) == ~Malformed(expr) /\ ~_validate(ast_parse(Normalize(expr)).node)

Raises(expr, risk) ==
  /\ ~Malformed(expr) /\ ~Forbidden(expr)
  /\ Eval(ast_parse(Normalize(expr)).node, ConditionCtx(risk) @@ FuncEnv).t = "err"

\* C10: for a present expression that is malformed, uses a forbidden
\* construct or raises during evaluation, requires_approval and denies_action
\* both return true, whatever the risk result.
C10_FailClosed ==
  (pure.fn \in {"requires_approval", "denies_action"} /\ pure.done /\ pure.arg.expr \notin {NoExpr, <<>>}
     /\ (Malformed(pure.arg.expr) \/ Forbidden(pure.arg.expr) \/ Raises(pure.arg.expr, pure.arg.risk)))
    => pure.out = TRUE

\* C10 witness: denies_action was applied to an expression that raises while
\* being evaluated.
C10_Witness ==
  /\ pure.fn = "denies_action" /\ pure.done /\ pure.arg.expr \notin {NoExpr, <<>>}
  /\ Raises(pure.arg.expr, pure.arg.risk)

\* The lowest index of a policy matching the intent of r, 0 when none does.
FirstMatch(r) ==
  LET M == Matching(policy_cfg, itask[r]) IN
    IF M = {} THEN 0 ELSE CHOOSE i \in M : \A j \in M : i <= j

\* The first-matching policy of r carries a condition and the checker
\* returns true for the risk result of r.
Gated(r) ==
  /\ FirstMatch(r) # 0
  /\ policy_cfg[FirstMatch(r)].require_approval_if # NoExpr
  /\ requires_approval(policy_cfg[FirstMatch(r)].require_approval_if, itask[r].risk)

\* C11: when the matched policy carries require_approval_if and the checker
\* returns true, the effective decision is pending with the matched policy's
\* id, decision.overridden (to pending, because require_approval_if) is the
\* event after decision.made, the status goes from proposed to pending, the
\* caller gets the pending error and the interceptor does not call the handler.
C11_OverrideToPending ==
  \A r \in RIDs :
    (Effective(r) /\ Gated(r)) =>
      /\ itask[r].d.decision = "pending"
      /\ itask[r].d.policy_id = policy_cfg[FirstMatch(r)].id
      /\ itask[r].d.policy_id = decisions[r][1].matched_policy_id
      /\ ~InvokedVia(r, "interceptor")
      /\ itask[r].pc # "override" =>
           /\ events[r][3].type = "decision.made"
           /\ events[r][4] = [type |-> "decision.overridden",
                              data |-> [to |-> "pending", because |-> "require_approval_if"]]
      /\ itask[r].pc = "done" =>
           /\ SubSeq(statusLog[r], 1, 2) = <<"proposed", "pending">>
           /\ itask[r].outcome = "raised:pending"

\* C11 witness: a request matched by an allow policy whose condition holds
\* for its risk result was parked as pending.
C11_Witness ==
  \E r \in RIDs :
    /\ itask[r].pc = "done" /\ Gated(r)
    /\ policy_cfg[FirstMatch(r)].effect = "allow"
    /\ requests[r].status = "pending"

\* The status the interceptor writes for a decision.
StatusOf ==
  [e \in Effects |-> CASE e = "deny" -> "denied" [] e = "pending" -> "pending" [] OTHER -> "allowed"]

\* C12: when the matched policy carries no require_approval_if, the checker
\* returns false, no decision.overridden event is written, the effective
\* decision is the policy's effect and the status written after proposed is
\* the one of that effect (pending for a pending policy).
C12_NoConditionDeclaredEffect ==
  \A r \in RIDs :
    (Effective(r) /\ FirstMatch(r) # 0 /\ policy_cfg[FirstMatch(r)].require_approval_if = NoExpr) =>
      /\ ~requires_approval(policy_cfg[FirstMatch(r)].require_approval_if, itask[r].risk)
      /\ "decision.overridden" \notin EventTypes(r)
      /\ itask[r].d.decision = policy_cfg[FirstMatch(r)].effect
      /\ itask[r].d.policy_id = policy_cfg[FirstMatch(r)].id
      /\ itask[r].pc # "enforce" =>
           SubSeq(statusLog[r], 1, 2) = <<"proposed", StatusOf[policy_cfg[FirstMatch(r)].effect]>>

\* C12 witness: a request matched by a pending policy without a condition
\* was parked as pending.
C12_Witness ==
  \E r \in RIDs :
    /\ itask[r].pc = "done" /\ FirstMatch(r) # 0
    /\ policy_cfg[FirstMatch(r)].require_approval_if = NoExpr
    /\ policy_cfg[FirstMatch(r)].effect = "pending"
    /\ requests[r].status = "pending"
    /\ "decision.overridden" \notin EventTypes(r)

\* The types of the events of r in insertion order.
EventTypeSeq(r) == [i \in 1..Len(events[r]) |-> events[r][i].type]

\* C13: on the allow path the statuses written are proposed, allowed and,
\* after a successful remote call, executed; the events are request.created,
\* risk.scored, decision.made, proxy.forwarding and then proxy.executed; when
\* the remote call starts, allowed and proxy.forwarding are already written.
C13_AllowPathOrder ==
  \A r \in RIDs :
    /\ itask[r].pc \in {"forwarding", "returned"} =>
         /\ statusLog[r] = <<"proposed", "allowed">>
         /\ EventTypeSeq(r) = <<"request.created", "risk.scored", "decision.made", "proxy.forwarding">>
         /\ Len(invocations[r]) = IF itask[r].pc = "forwarding" THEN 0 ELSE 1
    /\ InvokedVia(r, "interceptor") =>
         /\ SubSeq(statusLog[r], 1, 2) = <<"proposed", "allowed">>
         /\ SubSeq(EventTypeSeq(r), 1, 4) =
              <<"request.created", "risk.scored", "decision.made", "proxy.forwarding">>
    /\ (itask[r].pc = "done" /\ itask[r].outcome = "returned") =>
         /\ statusLog[r] = <<"proposed", "allowed", "executed">>
         /\ EventTypeSeq(r) = <<"request.created", "risk.scored", "decision.made",
                                "proxy.forwarding", "proxy.executed">>

\* C13 witness: an allowed request whose remote call succeeded has ended.
C13_Witness ==
  \E r \in RIDs :
    itask[r].pc = "done" /\ itask[r].outcome = "returned" /\ requests[r].status = "executed"

\* C14: when the remote call made by the interceptor raises, the status
\* written after allowed is failed and never executed, the last event of the
\* run is proxy.failed carrying that error, and that error is what the caller
\* gets.
C14_HandlerErrorJournaledAndRaised ==
  \A r \in RIDs :
    itask[r].exc # None =>
      /\ "executed" \notin Range(statusLog[r])
      /\ itask[r].pc \in {"failed", "done"} => statusLog[r] = <<"proposed", "allowed", "failed">>
      /\ itask[r].pc = "done" =>
           /\ Last(events[r]) = [type |-> "proxy.failed", data |-> [error |-> itask[r].exc]]
           /\ itask[r].outcome = "raised:" \o itask[r].exc
           /\ requests[r].status = "failed"

\* C14 witness: a run whose remote call raised ToolError has ended.
C14_Witness ==
  \E r \in RIDs : itask[r].pc = "done" /\ itask[r].exc = "ToolError"

\* C15: the step of POST /approve that follows a successful remote call
\* writes status executed, appends proxy.executed and then tool.result (a
\* preview of at most 500 characters, the whole text when it is that short)
\* to a log that holds approval.granted, and answers ok; the step that
\* follows a failed remote call writes status failed, appends proxy.failed
\* alone and answers 500.
C15_ApproveOutcome ==
  [][\A c \in CallIds :
       LET rid == calls[c].rid IN
         /\ (calls[c].pc = "a_returned" /\ calls'[c].pc # "a_returned") =>
              /\ requests'[rid].status = "executed"
              /\ "approval.granted" \in EventTypes(rid)
              /\ Len(events'[rid]) = Len(events[rid]) + 2
              /\ SubSeq(events'[rid], 1, Len(events[rid])) = events[rid]
              /\ events'[rid][Len(events[rid]) + 1].type = "proxy.executed"
              /\ events'[rid][Len(events[rid]) + 2].type = "tool.result"
              /\ LET n == events'[rid][Len(events[rid]) + 2].data.result_preview IN
                   /\ n <= 500 /\ n <= calls[c].result
                   /\ calls[c].result <= 500 => n = calls[c].result
              /\ calls'[c].pc = "done" /\ calls'[c].resp = 200
         /\ (calls[c].pc = "a_excepted" /\ calls'[c].pc # "a_excepted") =>
              /\ requests'[rid].status = "failed"
              /\ events'[rid] = Append(events[rid], [type |-> "proxy.failed", data |-> [error |-> "error"]])
              /\ calls'[c].pc = "done" /\ calls'[c].resp = 500]_vars

\* C15 witness: an approve whose remote call returned a text longer than
\* the preview has answered ok and the log ends with its tool.result.
C15_Witness ==
  \E c \in CallIds :
    /\ calls[c].kind = "approve" /\ calls[c].resp = 200 /\ calls[c].result > 500
    /\ Last(events[calls[c].rid]).type = "tool.result"
    /\ requests[calls[c].rid].status = "executed"

\* C16: a cancelled interceptor run does not leave its request in status
\* proposed or allowed, and a cancelled approve does not leave it in status
\* approved.
C16_CancelLeavesNoIntermediateStatus ==
  /\ \A r \in RIDs : itask[r].pc = "cancelled" => requests[r].status \notin {"proposed", "allowed"}
  /\ \A c \in CallIds :
       (calls[c].pc = "cancelled" /\ calls[c].kind = "approve") =>
         requests[calls[c].rid].status # "approved"

\* C17: in every step of the interceptor and of approve and deny, the event
\* log of the next state has the event log of the previous state as a
\* prefix: no event row is changed or removed.
C17_EventsAppendOnly ==
  [][\A r \in RIDs :
       /\ Len(events'[r]) >= Len(events[r])
       /\ SubSeq(events'[r], 1, Len(events[r])) = events[r]]_vars

\* C17 witness: the log of a request holds events of the interceptor and,
\* after them, events of approve.
C17_Witness ==
  \E r \in RIDs :
    /\ Len(events[r]) >= 7
    /\ events[r][1].type = "request.created"
    /\ Last(events[r]).type = "tool.result"

\* C18: whenever the store holds a decision row or an event for a request
\* id, it holds the request row of that id.
C18_RowsReferToRequest ==
  \A r \in RIDs : (decisions[r] # <<>> \/ events[r] # <<>>) => requests[r] # NoRow

\* C18 witness: a call on a request id without a row was answered 404, and
\* later the store holds the request with its decision and an event written
\* by deny.
C18_Witness ==
  \E r \in RIDs :
    /\ \E c \in CallIds : calls[c].rid = r /\ calls[c].resp = 404
    /\ decisions[r] # <<>> /\ "approval.denied" \in EventTypes(r) /\ requests[r] # NoRow

\* C19: the score that RiskEngine.score returns lies in 0..100 and is at
\* least the baseline score of the returned mode.
C19_ScoreInRangeAboveBaseline ==
  (pure.fn = "score" /\ pure.done) =>
    /\ 0 <= pure.out.score /\ pure.out.score <= 100
    /\ pure.out.score >= pure.arg.cfg.modes[pure.out.mode]

\* Rule j of the scored config matches the intent and sets or escalates the mode.
Imposes(j) ==
  LET rule == pure.arg.cfg.rules[j] IN
    /\ _when_matches(rule.when, pure.arg.intent)
    /\ (rule.set_mode # None \/ rule.escalate # None)

\* C20: once a matching rule has set or escalated the mode to a level, the
\* mode after every later rule and the returned mode are at that level or
\* above it on the ladder safe < review < danger.
C20_NoDowngradeBelowRuleLevel ==
  (pure.fn = "score") =>
    \A j \in 1..Len(pure.after) :
      Imposes(j) =>
        /\ \A k \in (j + 1)..Len(pure.after) :
             _mode_rank(pure.after[k]) >= _mode_rank(pure.after[j])
        /\ pure.done => _mode_rank(pure.out.mode) >= _mode_rank(pure.after[j])

\* Token t can end an operand, so that "(" or "[" after it is a call or a subscript.
EndsOperand(t) ==
  t \in NameTok \cup DOMAIN NumVal \cup DOMAIN StrVal \cup {"True", "False", "None", ")", "]"}

\* The text of an expression holds a forbidden construct: attribute access,
\* a subscript, a dunder name, a call of anything but a whitelisted name, or
\* an operator outside the grammar.
HasForbidden(toks) ==
  \E i \in 1..Len(toks) :
    \/ toks[i] = "."
    \/ toks[i] \in DunderTok
    \/ toks[i] \in {"&", "="}
    \/ i > 1 /\ toks[i] = "[" /\ EndsOperand(toks[i - 1])
    \/ i > 1 /\ toks[i] = "(" /\ EndsOperand(toks[i - 1]) /\ toks[i - 1] \notin _ALLOWED_FUNCS

\* C21: an expression holding a forbidden construct never gets past
\* validation: nothing of it is evaluated, and safe_eval ends with an error.
C21_ForbiddenRejectedBeforeEval ==
  (pure.fn = "safe_eval" /\ HasForbidden(pure.arg.expr)) =>
    /\ pure.stage # "validated" /\ ~pure.evaluated
    /\ pure.done => pure.out \in {VErr("SyntaxError"), VErr("ValueError")}

\* C21 witness: safe_eval has rejected a well-formed expression whose
\* forbidden part follows an operand that already decides the result.
C21_Witness ==
  /\ pure.fn = "safe_eval" /\ pure.done /\ pure.out = VErr("ValueError")
  /\ pure.arg.expr = <<"risk_score", ">=", "0", "or", "risk", ".", "level">>

\* The fields of a request row that are written once, at the insert.
Immutable(row) ==
  <<row.created_at, row.server, row.tool, row.arguments_json, row.arguments_hash, row.actor, row.env>>

\* C22: no step changes the immutable fields of an inserted request row,
\* and every remote call made by approve carries the server, the tool and
\* the arguments the interceptor recorded for the intent.
C22_ImmutableFieldsKept ==
  [][\A r \in RIDs :
       /\ requests[r] # NoRow => Immutable(requests'[r]) = Immutable(requests[r])
       /\ \A i \in 1..Len(invocations'[r]) :
            invocations'[r][i].via = "approve" =>
              /\ invocations'[r][i].server = itask'[r].server
              /\ invocations'[r][i].tool = itask'[r].tool
              /\ SameValue(invocations'[r][i].args, itask'[r].args)
              /\ _stable_json(invocations'[r][i].args) = requests'[r].arguments_json]_vars

\* C22 witness: approve has made the remote call for a request whose
\* arguments are a nested map, and the request went on to executed.
C22_Witness ==
  \E r \in RIDs :
    /\ requests[r].status = "executed" /\ requests[r].approved_by # None
    /\ itask[r].args # JObj(<<>>)
    /\ InvokedVia(r, "approve")

\* C23: two argument maps that hold the same keys with equal values, in any
\* insertion order at any depth, serialize to the same text and have the
\* same hash.
C23_SerializationKeyOrderFree ==
  (pure.fn = "_stable_json" /\ pure.done /\ SameValue(pure.arg.x, pure.arg.y)) =>
    (pure.out.x = pure.out.y /\ pure.out.hx = pure.out.hy)

\* C23 witness: two maps that differ in the insertion order of a nested map
\* and of the top level have been serialized.
C23_Witness ==
  /\ pure.fn = "_stable_json" /\ pure.done
  /\ SameValue(pure.arg.x, pure.arg.y)
  /\ Len(pure.arg.x.v) = 2 /\ pure.arg.x.v[1].k # pure.arg.y.v[1].k
  /\ \E i, j \in 1..2 :
       /\ pure.arg.x.v[i].v.t = "obj" /\ pure.arg.y.v[j].v.t = "obj"
       /\ pure.arg.x.v[i].k = pure.arg.y.v[j].k
       /\ pure.arg.x.v[i].v # pure.arg.y.v[j].v

\* The error text m has the request id rid formatted into it.
Carries(m, rid) == "request_id" \in DOMAIN m /\ m.request_id = rid

\* C24: the error the interceptor raises on deny and on pending, and the
\* error responses of approve and deny, carry the id of the request.
C24_FailuresCarryRequestId ==
  /\ \A r \in RIDs :
       itask[r].outcome \in {"raised:denied", "raised:pending"} => Carries(itask[r].msg, r)
  /\ \A c \in CallIds :
       (calls[c].pc = "done" /\ calls[c].resp \in {400, 404, 500}) =>
         Carries(calls[c].detail, calls[c].rid)

\* Event i of request r was written by the HTTP surface: the approval and
\* tool.result events, and the proxy events of a request the interceptor
\* did not forward.
SurfaceWritten(r, i) ==
  \/ events[r][i].type \in {"approval.granted", "approval.denied", "tool.result"}
  \/ events[r][i].type \in {"proxy.executed", "proxy.failed"} /\ "proxy.forwarding" \notin EventTypes(r)

\* C25: every event the HTTP surface writes for a request comes after the
\* interceptor's request.pending event in the request's log.
C25_SurfaceEventsAfterPending ==
  \A r \in RIDs : \A i \in 1..Len(events[r]) :
    SurfaceWritten(r, i) => \E j \in 1..(i - 1) : events[r][j].type = "request.pending"

\* C26: the first status of a request row is proposed, and once the status
\* is another one the request has its one decision row and its
\* decision.made event.
C26_DecisionBeforeLeavingProposed ==
  \A r \in RIDs :
    /\ statusLog[r] # <<>> => statusLog[r][1] = "proposed"
    /\ (requests[r] # NoRow /\ requests[r].status # "proposed") =>
         (Len(decisions[r]) = 1 /\ "decision.made" \in EventTypes(r))

\* C26 witness: a request has left proposed for pending, with its decision row.
C26_Witness ==
  \E r \in RIDs :
    /\ statusLog[r] = <<"proposed", "pending">>
    /\ Len(decisions[r]) = 1 /\ decisions[r][1].decision = "pending"

\* The value var k of the scored config has when it is evaluated over the
\* bindings and the vars before it.
VarValue(k) ==
  LET ctx == RiskVarsCtx(pure.arg.intent)
      vs == pure.arg.cfg.vars
  IN safe_eval(vs[k].expr, ComputeVars(SubSeq(vs, 1, k - 1), 1, ctx, NoVars) @@ ctx)

\* C27: once the vars are computed every var is bound, a failing one to 0
\* and the others to their value over the earlier bindings; the run goes on
\* through the rules and, when it is done, has a mode and a score as result.
C27_FailingVarBoundToZero ==
  (pure.fn = "score" /\ pure.phase # "vars") =>
    /\ \A k \in 1..Len(pure.arg.cfg.vars) :
         /\ pure.arg.cfg.vars[k].name \in DOMAIN pure.computed
         /\ pure.computed[pure.arg.cfg.vars[k].name] =
              IF VarValue(k).t = "err" THEN VInt(0) ELSE VarValue(k)
    /\ pure.done => (pure.out.mode \in {"safe", "review", "danger"} /\ pure.out.score \in 0..100)
    /\ ~pure.done => pure.phase \in {"expr", "mode"}

\* C27 witness: score has returned for a config whose first var tries to
\* import and is bound to 0, whose second var reads it, and whose matching
\* rule computes the score from both.
C27_Witness ==
  /\ pure.fn = "score" /\ pure.done
  /\ Len(pure.arg.cfg.vars) = 2 /\ VarValue(1) = VErr("ValueError")
  /\ pure.computed["level"] = VInt(0) /\ pure.computed["x"] = VInt(10)
  /\ Len(pure.out.matched_rules) = 1 /\ pure.out.score = 10

\* The turn of the loop about to run is on a matching rule whose score_expr
\* fails to evaluate.
ScoreExprFails ==
  /\ pure.fn = "score" /\ ~pure.done /\ pure.phase = "expr" /\ pure.i <= Len(pure.arg.cfg.rules)
  /\ LET rule == pure.arg.cfg.rules[pure.i] IN
       /\ _when_matches(rule.when, pure.arg.intent)
       /\ rule.score_expr # NoExpr
       /\ safe_eval(rule.score_expr, RiskEnv(pure.computed, pure.arg.intent, pure.out)).t = "err"

\* C28: when the score_expr of a matching rule fails, the step leaves the
\* score as it was, leaves the mode at review or above and not below what it
\* was, and appends the diagnostic reason.
C28_FailingScoreExprEscalates ==
  [][ScoreExprFails =>
       /\ pure'.out.score = pure.out.score
       /\ _mode_rank(pure'.out.mode) >= _mode_rank("review")
       /\ _mode_rank(pure'.out.mode) >= _mode_rank(pure.out.mode)
       /\ Len(pure'.out.reasons) > Len(pure.out.reasons)
       /\ Last(pure'.out.reasons) = ExprFailedReason(pure.arg.cfg.rules[pure.i])]_vars

\* C28 witness: the score_expr of the second rule has failed with the mode
\* at danger, and the mode is still danger.
C28_Witness ==
  /\ pure.fn = "score" /\ pure.phase = "mode" /\ pure.i = 2
  /\ pure.after = <<"danger">> /\ pure.out.mode = "danger"
  /\ pure.out.reasons # <<>> /\ Last(pure.out.reasons) = ExprFailedReason(pure.arg.cfg.rules[2])

\* The value of entry j of set_mode_by_score when the loop gets to it: the
\* mode it reads is the one left by the failures before it.
RECURSIVE ByScoreValue(_)
ByScoreValue(j) ==
  LET failed == \E k \in 1..(j - 1) : ByScoreValue(k).t = "err"
      st == IF failed THEN [pure.out EXCEPT !.mode = BumpToReview(@)] ELSE pure.out
  IN safe_eval(pure.arg.cfg.set_mode_by_score[j].expr, RiskEnv(pure.computed, pure.arg.intent, st))

\* Entry j is the first one of set_mode_by_score whose expression is truthy.
FirstTruthy(j) ==
  /\ ByScoreValue(j).t # "err" /\ Truthy(ByScoreValue(j))
  /\ \A k \in 1..(j - 1) : ByScoreValue(k).t = "err" \/ ~Truthy(ByScoreValue(k))

\* C29: with a non-empty set_mode_by_score the return step evaluates the
\* expressions in declared order up to the first truthy one, whose mode is
\* the returned mode; and if an evaluated expression failed, the returned
\* mode is review or above.
C29_FirstTruthyByScoreWins ==
  [][(pure.fn = "score" /\ ~pure.done /\ pure'.done /\ pure.arg.cfg.set_mode_by_score # <<>>) =>
       LET mbs == pure.arg.cfg.set_mode_by_score
           tried == pure'.out.tried
       IN /\ tried = [k \in 1..Len(tried) |-> k]
          /\ \A j \in 1..Len(mbs) :
               FirstTruthy(j) => (tried = [k \in 1..j |-> k] /\ pure'.out.mode = mbs[j].mode)
          /\ (\A j \in 1..Len(mbs) : ~FirstTruthy(j)) => Len(tried) = Len(mbs)
          /\ (\E k \in 1..Len(tried) : ByScoreValue(k).t = "err") =>
               _mode_rank(pure'.out.mode) >= _mode_rank("review")]_vars

\* The expression with each dotted risk binding written in its underscore
\* form, position by position from the right.
RECURSIVE Underscored(_)
Underscored(toks) ==
  LET n == Len(toks) IN
    IF n = 0 THEN <<>>
    ELSE IF n >= 3 /\ toks[n - 2] = "risk" /\ toks[n - 1] = "." /\ toks[n] = "score"
         THEN Underscored(SubSeq(toks, 1, n - 3)) \o <<"risk_score">>
    ELSE IF n >= 3 /\ toks[n - 2] = "risk" /\ toks[n - 1] = "." /\ toks[n] = "mode"
         THEN Underscored(SubSeq(toks, 1, n - 3)) \o <<"risk_mode">>
    ELSE Underscored(SubSeq(toks, 1, n - 1)) \o <<toks[n]>>

\* C30: a condition written with risk.score / risk.mode gives the same
\* boolean as the same condition written with risk_score / risk_mode, for
\* every expression and every risk result.
C30_DottedEqualsUnderscore ==
  (pure.fn \in {"requires_approval", "denies_action"} /\ pure.done /\ pure.arg.expr \notin {NoExpr, <<>>}) =>
    /\ pure.out = _eval_condition(Underscored(pure.arg.expr), pure.arg.risk, TRUE)
    /\ _eval_condition(pure.arg.expr, pure.arg.risk, FALSE) =
         _eval_condition(Underscored(pure.arg.expr), pure.arg.risk, FALSE)

\* C30 witness: a condition that uses both dotted bindings has been
\* evaluated to false, which the default on errors never gives.
C30_Witness ==
  /\ pure.fn = "requires_approval" /\ pure.done /\ pure.out = FALSE
  /\ pure.arg.expr = <<"risk", ".", "score", ">=", "50", "and", "risk", ".", "mode", "==", "'review'">>
  /\ Underscored(pure.arg.expr) = <<"risk_score", ">=", "50", "and", "risk_mode", "==", "'review'">>

\* The effective limit of GET /requests as the interface states it.
EffectiveLimit(limit) ==
  IF limit > 500 THEN 500 ELSE IF limit < 1 THEN 1 ELSE limit

\* The rows of the table that pass the status filter of the call.
MatchingRows ==
  LET f == IF pure.arg.status = None THEN None ELSE strip_lower(pure.arg.status)
  IN {k \in 1..Len(pure.arg.table) : f \in {None, ""} \/ pure.arg.table[k].status = f}

\* C31: GET /requests answers with as many rows as match, up to the
\* effective limit max(1, min(limit, 500)) and never more: 500 for a limit
\* above 500, 1 for a limit below 1.
C31_ListLimitClamped ==
  (pure.fn = "requests" /\ pure.done) =>
    /\ Len(pure.out) <= EffectiveLimit(pure.arg.limit)
    /\ Len(pure.out) = IF Cardinality(MatchingRows) < EffectiveLimit(pure.arg.limit)
                         THEN Cardinality(MatchingRows) ELSE EffectiveLimit(pure.arg.limit)
    /\ \A k \in 1..Len(pure.out) : pure.out[k].id \in MatchingRows

\* C31 witness: a table of 502 rows asked for with limit 1000000 has been
\* answered with 500 rows.
C31_Witness ==
  /\ pure.fn = "requests" /\ pure.done
  /\ pure.arg.limit = 1000000 /\ Len(pure.arg.table) = 502 /\ pure.arg.status = None
  /\ Len(pure.out) = 500 /\ pure.out[1].id = 502

\* C32: when lint has reported that policy i shadows policy j, decide does
\* not return policy j, whatever the server, tool and env.
C32_ShadowedPolicyNeverReturned ==
  (pure.fn = "policy" /\ pure.done) =>
    \A w \in pure.lint.shadows :
      /\ w[1] < w[2]
      /\ pure.out.policy_id # policy_cfg[w[2] + 1].id
      /\ pure.explain.index # w[2]

\* C32 witness: lint has reported a shadowing by a policy that is not a
\* catch-all, and decide has returned the shadowing policy for an intent the
\* shadowed one matches.
C32_Witness ==
  /\ pure.fn = "policy" /\ pure.done
  /\ <<0, 1>> \in pure.lint.shadows
  /\ policy_cfg[1].match.server # Star
  /\ pure.out.policy_id = policy_cfg[1].id
  /\ PolicyMatches(policy_cfg[2], pure.arg.server, pure.arg.tool, pure.arg.env)

\* C37: decide and decide_explain return the same decision, policy_id, reason
\* and matched string for every policy config and every (server, tool, env).
C37_MatchersAgree ==
  (pure.fn = "policy" /\ pure.done) =>
    /\ pure.out.decision = pure.explain.decision
    /\ pure.out.policy_id = pure.explain.policy_id
    /\ pure.out.reason = pure.explain.reason
    /\ pure.out.matched = pure.explain.matched

\* C37 witness: both matchers have returned the second policy, a denying one
\* with a reason text, the first one not matching.
C37_Witness ==
  /\ pure.fn = "policy" /\ pure.done
  /\ pure.out.policy_id = "p2" /\ pure.explain.index = 1
  /\ pure.out.decision = "deny" /\ pure.out.reason = <<"blocked">>
  /\ pure.explain.reason = <<"blocked">>

\* C33: once the status of a request has left proposed, its most recent
\* decision row carries the decision that was enforced: deny for denied,
\* pending for pending, allow for allowed.
C33_LatestDecisionIsEnforced ==
  \A r \in RIDs :
    Len(statusLog[r]) >= 2 =>
      /\ decisions[r] # <<>>
      /\ Last(decisions[r]).decision =
           CASE statusLog[r][2] = "denied" -> "deny"
             [] statusLog[r][2] = "pending" -> "pending"
             [] OTHER -> "allow"

\* C34: a request whose first matching policy has effect deny is set to
\* denied by the interceptor and the remote tool is never invoked for it,
\* by the interceptor or through POST /approve.
C34_DenyPolicyNeverExecuted ==
  \A r \in RIDs :
    (statusLog[r] # <<>> /\ FirstMatch(r) # 0 /\ policy_cfg[FirstMatch(r)].effect = "deny") =>
      /\ invocations[r] = <<>>
      /\ Len(statusLog[r]) >= 2 => statusLog[r][2] = "denied"

\* C35: at most one remote invocation is made for a request, across the
\* interceptor and every POST /approve call for it, sequential or concurrent.
C35_AtMostOneInvocation ==
  \A r \in RIDs : Len(invocations[r]) <= 1

\* The statuses a request passes through, and the ones it may rest in.
Transient == {"proposed", "allowed", "approved"}

Resting == {"pending", "denied", "executed", "failed"}

\* C36: under fair scheduling, with every remote call answering, a request
\* in status proposed, allowed or approved eventually reaches pending,
\* denied, executed or failed.
C36_TransientStatusLeft ==
  \A r \in RIDs : (requests[r].status \in Transient) ~> (requests[r].status \in Resting)

\* C36 witness: a request that was proposed, parked, approved while the
\* remote call failed, and has ended failed.
C36_Witness ==
  \E r \in RIDs :
    /\ statusLog[r] = <<"proposed", "pending", "approved", "failed">>
    /\ requests[r].status = "failed"
    /\ \A c \in CallIds : calls[c].pc \in {"idle", "done"}

====
